---- MODULE Spec2Model ----
(***************************************************************************)
(* Verification model of the example MCP servers of ruby-mcp-client:       *)
(*   - examples/mcp_2025_11_25_server.py     (stdio, task registry)        *)
(*   - examples/echo_server_streamable.py    (sessions, timers, reaper)    *)
(*   - examples/elicitation/elicitation_streamable_server.py               *)
(*                                           (elicitation correlation)     *)
(* Each server is its own process; each has its own specification over     *)
(* its own variables (SpecTasks, SpecEcho..., SpecElicit...).                    *)
(***************************************************************************)
EXTENDS Integers, Sequences, FiniteSets, TLC

(***************************************************************************)
(* Python's None and optional values: None is the empty set, a present     *)
(* value x is the singleton {x}.                                           *)
(***************************************************************************)
None == {}
Some(x) == {x}
Val(o) == CHOOSE x \in o : TRUE

\* ------------------------------------------------------------------------
\* State of the task server (mcp_2025_11_25_server.py)
\* ------------------------------------------------------------------------
VARIABLES
    tasks,        \* the `tasks` dict: task id -> task record
    worker,       \* per task id: position of run_task_in_background
    progressOut,  \* per task id: the notifications/progress written to stdout
    mainPc,       \* main loop: "idle", inside task_to_response after the lock, or
                  \* "crashed" once an exception has left main()
    mainRead,     \* the "state" task_to_response has read for its snapshot
    mainTask,     \* the task id the handler in flight holds a reference to
    lastRequest,  \* the request the main loop handled last
    lastResponse  \* what the main loop wrote to stdout for it

taskVars == <<tasks, worker, progressOut, mainPc, mainRead, mainTask, lastRequest,
              lastResponse>>

\* ------------------------------------------------------------------------
\* State of the echo server (echo_server_streamable.py)
\* ------------------------------------------------------------------------
VARIABLES
    sessions,         \* keys of the `sessions` dict
    sess,             \* the Session objects ever created, by session id
    now,              \* datetime.now(), in seconds
    timers,           \* send_ping / send_notifications thread pairs started so far
    progressThreads,  \* long_task send_progress threads started so far
    streams,          \* generate_events generators (GET /mcp), by stream number
    wire,             \* per stream: what the generator has yielded so far
    deleting,         \* per session id: DELETE handlers between the `in` test and the `del`
    reaper,           \* cleanup_inactive_sessions: position and its inactive_sessions list
    faults,           \* the paths that raised an exception nothing caught
    echoResp          \* the last HTTP response of the echo server

echoVars == <<sessions, sess, now, timers, progressThreads, streams, wire,
              deleting, reaper, faults, echoResp>>

\* ------------------------------------------------------------------------
\* State of the elicitation server (elicitation/elicitation_streamable_server.py)
\* ------------------------------------------------------------------------
VARIABLES
    esessions,   \* keys of the `sessions` dict
    esess,       \* the Session objects ever created, by session id
    calls,       \* tools/call invocations: the handler and its tool thread
    elicits,     \* per elicitation id: the request_elicitation call that made it
    estreams,    \* GET /mcp and GET /sse generators, by stream number
    eseen,       \* elicitation ids the client has received on a stream
    eResp        \* the last HTTP response of the elicitation server

elicitVars == <<esessions, esess, calls, elicits, estreams, eseen, eResp>>

\* what a step of one server leaves alone: the other servers' state
TaskFrame == UNCHANGED <<echoVars, elicitVars>>
EchoFrame == UNCHANGED <<taskVars, elicitVars>>
ElicitFrame == UNCHANGED <<taskVars, echoVars>>

\* ------------------------------------------------------------------------
\* Bounds of the model
\* ------------------------------------------------------------------------
\* number of tasks/create requests accepted by the model
MaxTasks == 1

\* ========================================================================
\* PART 1 - mcp_2025_11_25_server.py : task registry and worker
\* ========================================================================

\* range(1, 6) and "total": 5
TaskTotal == 5
\* JSON-RPC "invalid params"
InvalidParams == -32602
\* JSON-RPC "method not found" and "internal error"
MethodNotFound == -32601
InternalError == -32603

TaskIds == 1..MaxTasks
\* an id no tasks/create ever returned
UnknownTaskId == 0
\* progressToken values a client may send; "" is a present but falsy token
Tokens == {"tok", ""}
TerminalStates == {"completed", "failed", "cancelled"}

\* Python truthiness of an optional string (task.get("progressToken"))
Truthy(o) == o # None /\ Val(o) # ""

\* create_task_record: the record stored for a new task
create_task_record_Running(tokenOpt) ==
    [ state         |-> "running",
      progressToken |-> tokenOpt,
      progress      |-> None,
      total         |-> None,
      message       |-> <<"Task created">>,
      result        |-> None ]
create_task_record(tokenOpt) ==
    [ state         |-> "pending",
      progressToken |-> tokenOpt,
      progress      |-> None,
      total         |-> None,
      message       |-> <<"Task created">>,
      result        |-> None ]

\* task_to_response: the public fields of a task; absent keys are None.
\* "state" is read first (line 124), the other keys after it (125-134)
task_to_response_rest(state, task) ==
    [ state         |-> state,
      progressToken |-> IF Truthy(task.progressToken) THEN task.progressToken ELSE None,
      progress      |-> task.progress,
      total         |-> task.total,
      message       |-> task.message,
      result        |-> task.result ]
task_to_response(task) == task_to_response_rest(task.state, task)

make_result(snap) == [kind |-> "result", code |-> 0, snap |-> Some(snap)]
make_error(code)  == [kind |-> "error", code |-> code, snap |-> None]
NoResponse        == [kind |-> "none", code |-> 0, snap |-> None]
\* the "id" of a client's request line; a notification has none
StdioRequestId == 1
\* a request (rid: its request id) with, for the properties, the task id it
\* names and the state its locked lookup found
Request(method, id, saw) ==
    [method |-> method, id |-> id, saw |-> saw, rid |-> Some(StdioRequestId)]
\* a line with a method and no "id"
Notification(method) == [Request(method, UnknownTaskId, "") EXCEPT !.rid = None]
\* make_result(request_id, {})
EmptyResult == [kind |-> "result", code |-> 0, snap |-> None]
NoRequest         == Request("none", UnknownTaskId, "")

\* run_task_in_background, first locked block
WorkerStartRecord(task) ==
    [task EXCEPT !.state = "running", !.total = Some(TaskTotal),
                 !.progress = Some(0), !.message = <<"Starting work...">>]

\* the progress value the loop writes at `step`
ProgressAt_OffByOne(step) == step + 1
ProgressAt(step) == step

\* the loop's guard: the worker returns when it sees the task cancelled
WorkerStops(task) == task.state = "cancelled"

\* run_task_in_background, locked block of one loop iteration
WorkerStepRecord(task, step) ==
    [task EXCEPT !.progress = Some(ProgressAt(step)), !.message = <<"Step", step, TaskTotal>>]

\* run_task_in_background, final locked block: the writes of state and
\* message (lines 171-172), then the write of result (line 173)
WorkerFinalRecord(task) ==
    [task EXCEPT !.state = "completed", !.message = <<"All steps done">>]
WorkerResultRecord_None(task) == task
WorkerResultRecord(task) ==
    [task EXCEPT !.result = Some("Background task finished successfully")]

\* the worker threads are daemon threads: they end with the main thread
Running == mainPc # "crashed"

\* tasks_lock is free unless a worker is inside its final block
LockFree == \A t \in DOMAIN worker : worker[t].pc # "result"

\* handle_tasks_cancel: the states in which cancel is refused
CancelRefused_NotCompleted(state) == state \in {"failed", "cancelled"}
CancelRefused(state) == state \in TerminalStates

CancelRecord(task) ==
    [task EXCEPT !.state = "cancelled", !.message = <<"Cancelled by client">>]

InitTasks ==
    /\ tasks = <<>>
    /\ worker = <<>>
    /\ progressOut = <<>>
    /\ mainPc = "idle"
    /\ mainRead = ""
    /\ mainTask = UnknownTaskId
    /\ lastRequest = NoRequest
    /\ lastResponse = NoResponse

\* the answer to an id that is not a key of `tasks`:
\* make_error(request_id, -32602, "Task not found: ...")
TaskNotFound_InternalError == make_error(InternalError)
TaskNotFound == make_error(InvalidParams)

\* handle_tasks_create: store a pending record, snapshot it, start the worker
handle_tasks_create(tokenOpt) ==
    /\ mainPc = "idle"
    /\ LockFree
    /\ Len(tasks) < MaxTasks
    /\ LET id == Len(tasks) + 1
           task == create_task_record(tokenOpt)
       IN /\ tasks' = Append(tasks, task)
          /\ worker' = Append(worker, [pc |-> "start", step |-> 1])
          /\ progressOut' = Append(progressOut, <<>>)
          /\ lastRequest' = Request("tasks/create", id, "pending")
          /\ lastResponse' = make_result(task_to_response(task))
    /\ UNCHANGED <<mainPc, mainTask>>
    /\ UNCHANGED mainRead
    /\ TaskFrame

\* handle_tasks_get, locked lookup; an unknown id is answered at once
handle_tasks_get(id) ==
    /\ mainPc = "idle"
    /\ LockFree
    /\ lastRequest' = Request("tasks/get", id,
                               IF id \in DOMAIN tasks THEN tasks[id].state ELSE "")
    /\ IF id \in DOMAIN tasks
       THEN /\ mainPc' = "respond"
            /\ mainTask' = id
            /\ lastResponse' = NoResponse
       ELSE /\ lastResponse' = TaskNotFound
            /\ UNCHANGED <<mainPc, mainTask>>
    /\ UNCHANGED <<tasks, worker, progressOut>>
    /\ UNCHANGED mainRead
    /\ TaskFrame

\* handle_tasks_cancel, locked block
handle_tasks_cancel(id) ==
    /\ mainPc = "idle"
    /\ LockFree
    /\ lastRequest' = Request("tasks/cancel", id,
                               IF id \in DOMAIN tasks THEN tasks[id].state ELSE "")
    /\ IF id \notin DOMAIN tasks
       THEN /\ lastResponse' = TaskNotFound
            /\ UNCHANGED <<tasks, mainPc, mainTask>>
       ELSE IF CancelRefused(tasks[id].state)
       THEN /\ lastResponse' = make_error(InvalidParams)
            /\ UNCHANGED <<tasks, mainPc, mainTask>>
       ELSE /\ tasks' = [tasks EXCEPT ![id] = CancelRecord(tasks[id])]
            /\ mainPc' = "respond"
            /\ mainTask' = id
            /\ lastResponse' = NoResponse
    /\ UNCHANGED <<worker, progressOut>>
    /\ UNCHANGED mainRead
    /\ TaskFrame

\* handle_tasks_get / handle_tasks_cancel after the lock is released:
\* task_to_response starts on the live record and reads its "state"
ReadTaskState ==
    /\ mainPc = "respond"
    /\ mainRead' = tasks[mainTask].state
    /\ mainPc' = "respond_rest"
    /\ UNCHANGED <<tasks, worker, progressOut, mainTask, lastRequest, lastResponse>>
    /\ TaskFrame

\* task_to_response reads the other keys, then main() writes the response
SendTaskResponse ==
    /\ mainPc = "respond_rest"
    /\ lastResponse' = make_result(task_to_response_rest(mainRead, tasks[mainTask]))
    /\ mainPc' = "idle"
    /\ mainRead' = ""
    /\ UNCHANGED <<tasks, worker, progressOut, mainTask, lastRequest>>
    /\ TaskFrame

\* run_task_in_background: the first locked block, entered after sleep(0.1)
WorkerStart(t) ==
    /\ t \in DOMAIN tasks
    /\ Running
    /\ LockFree
    /\ worker[t].pc = "start"
    /\ tasks' = [tasks EXCEPT ![t] = WorkerStartRecord(tasks[t])]
    /\ worker' = [worker EXCEPT ![t].pc = "loop"]
    /\ UNCHANGED <<progressOut, mainPc, mainTask, lastRequest, lastResponse>>
    /\ UNCHANGED mainRead
    /\ TaskFrame

\* one iteration's locked block: return if cancelled, else record the step
WorkerStep(t) ==
    /\ t \in DOMAIN tasks
    /\ Running
    /\ LockFree
    /\ worker[t].pc = "loop"
    /\ IF WorkerStops(tasks[t])
       THEN /\ worker' = [worker EXCEPT ![t].pc = "done"]
            /\ UNCHANGED tasks
       ELSE /\ tasks' = [tasks EXCEPT ![t] = WorkerStepRecord(tasks[t], worker[t].step)]
            /\ worker' = [worker EXCEPT ![t].pc = "notify"]
    /\ UNCHANGED <<progressOut, mainPc, mainTask, lastRequest, lastResponse>>
    /\ UNCHANGED mainRead
    /\ TaskFrame

\* after the lock: send_notification if the task has a truthy token, next step
WorkerNotify(t) ==
    /\ t \in DOMAIN tasks
    /\ Running
    /\ worker[t].pc = "notify"
    /\ progressOut' =
         IF Truthy(tasks[t].progressToken)
         THEN [progressOut EXCEPT ![t] = Append(@,
                 [progressToken |-> Val(tasks[t].progressToken),
                  progress |-> worker[t].step, total |-> TaskTotal])]
         ELSE progressOut
    /\ worker' = [worker EXCEPT ![t] =
                    IF worker[t].step = TaskTotal
                    THEN [pc |-> "final", step |-> worker[t].step]
                    ELSE [pc |-> "loop", step |-> worker[t].step + 1]]
    /\ UNCHANGED <<tasks, mainPc, mainTask, lastRequest, lastResponse>>
    /\ UNCHANGED mainRead
    /\ TaskFrame

\* the final locked block: take the lock; unless cancelled, write state and
\* message and go on, still holding the lock, to the write of result
WorkerFinish(t) ==
    /\ t \in DOMAIN tasks
    /\ Running
    /\ worker[t].pc = "final"
    /\ LockFree
    /\ IF tasks[t].state # "cancelled"
       THEN /\ tasks' = [tasks EXCEPT ![t] = WorkerFinalRecord(tasks[t])]
            /\ worker' = [worker EXCEPT ![t].pc = "result"]
       ELSE /\ worker' = [worker EXCEPT ![t].pc = "done"]
            /\ UNCHANGED tasks
    /\ UNCHANGED <<progressOut, mainPc, mainTask, lastRequest, lastResponse>>
    /\ UNCHANGED mainRead
    /\ TaskFrame

\* the final locked block: write result, release the lock
WorkerFinishResult(t) ==
    /\ t \in DOMAIN tasks
    /\ Running
    /\ worker[t].pc = "result"
    /\ tasks' = [tasks EXCEPT ![t] = WorkerResultRecord(tasks[t])]
    /\ worker' = [worker EXCEPT ![t].pc = "done"]
    /\ UNCHANGED <<progressOut, mainPc, mainTask, lastRequest, lastResponse>>
    /\ UNCHANGED mainRead
    /\ TaskFrame

\* input lines that are no well-formed request of a known method: text
\* that is not JSON, a JSON value that is not an object, a tasks/get whose
\* params is not an object, a request of an unknown method
BadLines == {"invalid_json", "not_object", "params_not_object", "unknown_method"}

\* main(), one turn of `for line in sys.stdin` on such a line.
\* json.loads failing is caught (log, continue); request.get on a value
\* that is not a dict and params.get inside the handler raise
\* AttributeError, which nothing in main() catches
main_bad_line(kind) ==
    /\ mainPc = "idle"
    /\ lastRequest' = Request(kind, UnknownTaskId, "")
    /\ IF kind = "invalid_json"
       THEN /\ lastResponse' = NoResponse
            /\ UNCHANGED mainPc
       ELSE IF kind = "unknown_method"
       THEN /\ lastResponse' = make_error(MethodNotFound)
            /\ UNCHANGED mainPc
       ELSE /\ lastResponse' = NoResponse
            /\ mainPc' = "crashed"
    /\ UNCHANGED <<tasks, worker, progressOut, mainRead, mainTask>>
    /\ TaskFrame

\* methods of lines without an id: the notification the server knows, a
\* method with no handler, and two request methods sent as notifications
UnknownStdioMethod == "no/such"
NotificationMethods == {"notifications/initialized", UnknownStdioMethod, "ping", "tasks/get"}

\* main(), one turn of the loop on a line that has a method and no id
\* (request_id is None). A method without handler is skipped; otherwise the
\* handler runs and its return value is written unless it is None: only the
\* handler of notifications/initialized returns None, ping returns
\* make_result(None, {}) and tasks/get (no params: task id "") make_error
main_notification(method) ==
    /\ mainPc = "idle"
    /\ method = "tasks/get" => LockFree
    /\ lastRequest' = Notification(method)
    /\ lastResponse' =
         IF method = "ping" THEN EmptyResult
         ELSE IF method = "tasks/get" THEN TaskNotFound
         ELSE NoResponse
    /\ UNCHANGED <<tasks, worker, progressOut, mainPc, mainRead, mainTask>>
    /\ TaskFrame

NextTasks ==
    \/ \E tok \in {None} \cup {Some(k) : k \in Tokens} : handle_tasks_create(tok)
    \/ \E id \in TaskIds \cup {UnknownTaskId} : handle_tasks_get(id)
    \/ \E id \in TaskIds \cup {UnknownTaskId} : handle_tasks_cancel(id)
    \/ ReadTaskState
    \/ SendTaskResponse
    \/ \E t \in TaskIds : WorkerStart(t)
    \/ \E t \in TaskIds : WorkerStep(t)
    \/ \E t \in TaskIds : WorkerNotify(t)
    \/ \E t \in TaskIds : WorkerFinish(t)
    \/ \E t \in TaskIds : WorkerFinishResult(t)

\* the task server fed well-formed and other lines
NextStdio ==
    \/ NextTasks
    \/ \E kind \in BadLines : main_bad_line(kind)
    \/ \E method \in NotificationMethods : main_notification(method)

\* ========================================================================
\* PART 2 - echo_server_streamable.py : sessions, event queues, timers, reaper
\* ========================================================================

\* sessions created (initialize requests accepted) by the model
MaxEchoSessions == 1
\* notifications/initialized requests that start timer threads
MaxTimers == 1
\* notifications/initialized requests of a client that sends it again
MaxTimerPairs == 2
\* long_task calls that start a send_progress thread
MaxProgressThreads == 1
\* GET /mcp connections
MaxStreams == 1
\* GET /mcp connections of a client that connects again
MaxReaders == 2
\* DELETE handlers in flight at once
MaxDeleters == 1
\* events put on the sessions' queues
MaxEvents == 3
\* keepalive comments yielded on the streams
MaxKeepalives == 1
\* the clock stops here
MaxClock == 301

\* (now - session.last_activity).total_seconds() > 300
InactivityLimit == 300
\* the id a client of the echo server gives its requests
EchoRequestId == 1
\* Mcp-Session-Id header absent (request.headers.get returns None)
NoSid == -1
\* an Mcp-Session-Id that is not a key of `sessions`
UnknownSid == 0

EchoSessionIds == 1..MaxEchoSessions
\* the header values a client may send
EchoSidInputs == EchoSessionIds \cup {NoSid, UnknownSid}
\* time between two observations of the clock
TickSteps == {InactivityLimit - 1, InactivityLimit, InactivityLimit + 1}
\* `steps` arguments of long_task
LongTaskSteps == {2}

\* Session.__init__
Session(t) ==
    [ active        |-> TRUE,
      last_activity |-> t,
      ping_count    |-> 0,
      event_queue   |-> <<>>,
      pushed        |-> 0 ]     \* history: number of put() calls on event_queue

\* an HTTP response: status, the code of the JSON-RPC error in its body (0
\* if none) and the id in its body (None if null or no JSON-RPC body)
EchoHttp(status, code, id) == [status |-> status, code |-> code, id |-> id]
\* Flask's answer to an exception that leaves the view function
RawFault == EchoHttp(500, 0, None)
EchoResult == EchoHttp(200, 0, Some(EchoRequestId))

Keepalive == [kind |-> "keepalive", arg |-> 0, seq |-> 0]
IsEvent(item) == item.kind # "keepalive"

\* Queue.put: append at the tail (seq numbers the puts, for the properties)
queue_put_Overwrite(session, kind, arg) ==
    [session EXCEPT !.event_queue = <<[kind |-> kind, arg |-> arg,
                                       seq |-> session.pushed + 1]>>,
                    !.pushed = @ + 1]
queue_put(session, kind, arg) ==
    [session EXCEPT !.event_queue = Append(@, [kind |-> kind, arg |-> arg,
                                               seq |-> session.pushed + 1]),
                    !.pushed = @ + 1]

\* Queue.get: take from the head
queue_get_Lifo(q) == [item |-> q[Len(q)], rest |-> SubSeq(q, 1, Len(q) - 1)]
queue_get(q) == [item |-> Head(q), rest |-> Tail(q)]

\* the inactivity test of cleanup_inactive_sessions
IsInactive_AtLimit(session, t) == t - session.last_activity >= InactivityLimit
IsInactive(session, t) == t - session.last_activity > InactivityLimit

\* the reaper thread outside its first loop: position and inactive_sessions
ReaperAt(pc, inactive) == [pc |-> pc, inactive |-> inactive, pos |-> 0, size |-> 0]

\* ids of a set in dict (insertion) order
RECURSIVE InOrder(_)
InOrder(S) ==
    IF S = {} THEN <<>>
    ELSE LET m == CHOOSE x \in S : \A y \in S : x <= y
         IN <<m>> \o InOrder(S \ {m})

RECURSIVE SumSeq(_)
SumSeq(q) == IF q = <<>> THEN 0 ELSE Head(q) + SumSeq(Tail(q))
\* what a generator has yielded: the events, and the number of keepalive comments
EventsOn(w) == SelectSeq(w, IsEvent)
KeepalivesOn(w) == Len(w) - Len(EventsOn(w))
\* the model's budgets: put() calls and keepalive comments so far
TotalPushed == SumSeq([i \in DOMAIN sess |-> sess[i].pushed])
TotalKeepalives == SumSeq([k \in DOMAIN wire |-> KeepalivesOn(wire[k])])
\* put() calls the timer threads are already committed to (past their
\* `if session.active:`), and the room the budget leaves for one more put
PendingPuts == SumSeq([i \in DOMAIN timers |->
                         (IF timers[i].ping = "put" THEN 1 ELSE 0)
                         + (IF timers[i].notif = "put" THEN 1 ELSE 0)])
PutRoom == TotalPushed + PendingPuts < MaxEvents

\* the test both timer loops make: `while session.active` / `if session.active`
TimerContinues_Always(session) == TRUE
TimerContinues(session) == session.active

InitEcho ==
    /\ sessions = {}
    /\ sess = <<>>
    /\ now = 0
    /\ timers = <<>>
    /\ progressThreads = <<>>
    /\ streams = <<>>
    /\ wire = <<>>
    /\ deleting = [s \in EchoSessionIds |-> 0]
    /\ reaper = ReaperAt("sleep", <<>>)
    /\ faults = {}
    /\ echoResp = EchoHttp(0, 0, None)

\* handle_rpc, method == 'initialize'
EchoInitialize ==
    /\ Len(sess) < MaxEchoSessions
    /\ sess' = Append(sess, Session(now))
    /\ sessions' = sessions \cup {Len(sess) + 1}
    /\ UNCHANGED <<now, timers, progressThreads, streams, wire, deleting, reaper, faults>>
    /\ echoResp' = EchoResult
    /\ EchoFrame

\* handle_rpc, method == 'notifications/initialized': start both timer
\* threads; the model starts at most `max` pairs
EchoInitializedUpTo(sid, max) ==
    /\ IF sid \in sessions
       THEN /\ Len(timers) < max
            /\ timers' = Append(timers, [sid |-> sid, ping |-> "sleep", pid |-> 0,
                                         notif |-> "sleep", notification_count |-> 0])
       ELSE UNCHANGED timers
    /\ UNCHANGED <<sessions, sess, now, progressThreads, streams, wire, deleting,
                   reaper, faults>>
    /\ echoResp' = EchoHttp(202, 0, None)
    /\ EchoFrame

EchoInitialized(sid) == EchoInitializedUpTo(sid, MaxTimers)
\* a client that sends notifications/initialized for its session again
EchoInitializedAgain(sid) == EchoInitializedUpTo(sid, MaxTimerPairs)

\* send_ping: `while session.active: sleep; if session.active:`
PingWake(i) ==
    /\ i \in DOMAIN timers
    /\ timers[i].ping = "sleep"
    /\ IF TimerContinues(sess[timers[i].sid])
       THEN /\ PutRoom
            /\ timers' = [timers EXCEPT ![i].ping = "put"]
       ELSE timers' = [timers EXCEPT ![i].ping = "exit"]
    /\ UNCHANGED <<sessions, sess, now, progressThreads, streams, wire, deleting,
                   reaper, faults>>
    /\ UNCHANGED echoResp
    /\ EchoFrame

\* send_ping, lines 77-82: read session.ping_count into the ping's id, put
PingPut(i) ==
    /\ i \in DOMAIN timers
    /\ timers[i].ping = "put"
    /\ LET s == timers[i].sid IN
       /\ sess' = [sess EXCEPT ![s] = queue_put(sess[s], "ping", sess[s].ping_count)]
       /\ timers' = [timers EXCEPT ![i].ping = "count", ![i].pid = sess[s].ping_count]
    /\ UNCHANGED <<sessions, now, progressThreads, streams, wire, deleting,
                   reaper, faults>>
    /\ UNCHANGED echoResp
    /\ EchoFrame

\* send_ping, line 84: session.ping_count += 1, a read and a write with no
\* lock: the value written is one more than a value the counter had at
\* some point since this thread's put
PingCount(i) ==
    /\ i \in DOMAIN timers
    /\ timers[i].ping = "count"
    /\ LET s == timers[i].sid IN
       \E read \in {timers[i].pid, sess[s].ping_count} :
          sess' = [sess EXCEPT ![s].ping_count = read + 1]
    /\ timers' = [timers EXCEPT ![i].ping = "sleep", ![i].pid = 0]
    /\ UNCHANGED <<sessions, now, progressThreads, streams, wire, deleting,
                   reaper, faults>>
    /\ UNCHANGED echoResp
    /\ EchoFrame

\* send_notifications: `while session.active: sleep; if session.active:`
NotifWake(i) ==
    /\ i \in DOMAIN timers
    /\ timers[i].notif = "sleep"
    /\ IF TimerContinues(sess[timers[i].sid])
       THEN /\ PutRoom
            /\ timers' = [timers EXCEPT ![i].notif = "put"]
       ELSE timers' = [timers EXCEPT ![i].notif = "exit"]
    /\ UNCHANGED <<sessions, sess, now, progressThreads, streams, wire, deleting,
                   reaper, faults>>
    /\ UNCHANGED echoResp
    /\ EchoFrame

\* send_notifications: put the status notification, count it
NotifPut(i) ==
    /\ i \in DOMAIN timers
    /\ timers[i].notif = "put"
    /\ LET s == timers[i].sid IN
       /\ sess' = [sess EXCEPT ![s] =
                     queue_put(sess[s], "status", timers[i].notification_count)]
    /\ timers' = [timers EXCEPT ![i].notif = "sleep", ![i].notification_count = @ + 1]
    /\ UNCHANGED <<sessions, now, progressThreads, streams, wire, deleting,
                   reaper, faults>>
    /\ UNCHANGED echoResp
    /\ EchoFrame

\* handle_rpc, tools/call long_task: start send_progress if the session is known
EchoLongTask(sid, steps) ==
    /\ IF sid \in sessions
       THEN /\ Len(progressThreads) < MaxProgressThreads
            /\ progressThreads' = Append(progressThreads,
                                         [sid |-> sid, i |-> 0, steps |-> steps])
       ELSE UNCHANGED progressThreads
    /\ UNCHANGED <<sessions, sess, now, timers, streams, wire, deleting, reaper, faults>>
    /\ echoResp' = EchoResult
    /\ EchoFrame

\* send_progress: one iteration of `for i in range(steps)`
ProgressPut(p) ==
    /\ p \in DOMAIN progressThreads
    /\ LET th == progressThreads[p] IN
       /\ th.i < th.steps
       /\ PutRoom
       /\ sess' = [sess EXCEPT ![th.sid] =
                     queue_put(sess[th.sid], "progress", ((th.i + 1) * 100) \div th.steps)]
       /\ progressThreads' = [progressThreads EXCEPT ![p].i = @ + 1]
    /\ UNCHANGED <<sessions, now, timers, streams, wire, deleting, reaper, faults>>
    /\ UNCHANGED echoResp
    /\ EchoFrame

\* handle_rpc, tools/call trigger_notification
EchoTrigger(sid) ==
    /\ IF sid \in sessions
       THEN /\ PutRoom
            /\ sess' = [sess EXCEPT ![sid] = queue_put(sess[sid], "manual", 0)]
       ELSE UNCHANGED sess
    /\ UNCHANGED <<sessions, now, timers, progressThreads, streams, wire, deleting,
                   reaper, faults>>
    /\ echoResp' = EchoResult
    /\ EchoFrame

\* handle_rpc, the pong branch: the only place last_activity is written
EchoPong(sid) ==
    /\ IF sid \in sessions
       THEN sess' = [sess EXCEPT ![sid].last_activity = now]
       ELSE UNCHANGED sess
    /\ UNCHANGED <<sessions, now, timers, progressThreads, streams, wire, deleting,
                   reaper, faults>>
    /\ echoResp' = EchoHttp(200, 0, None)
    /\ EchoFrame

\* request bodies that are no JSON-RPC request: not JSON at all, the JSON
\* values null and [], and an object with an id but no method
MalformedBodies == {"unparsable", "null", "array", "no_method"}
\* the id the except clause puts in its answer:
\* request_data.get('id') if 'request_data' in locals() else None
RecoveredId(body) == IF body = "no_method" THEN Some(EchoRequestId) ELSE None

\* handle_rpc on such a body. get_json raises on what it cannot parse and
\* the except clause answers; on null and [] it returns the value and
\* request_data.get raises AttributeError, in the try block and again in the
\* except clause; an object without method falls through to the last else
handle_rpc_malformed(sid, body) ==
    /\ IF body = "unparsable"
       THEN /\ echoResp' = EchoHttp(500, InternalError, None)
            /\ UNCHANGED faults
       ELSE IF body \in {"null", "array"}
       THEN /\ echoResp' = RawFault
            /\ faults' = faults \cup {"handle_rpc"}
       ELSE /\ echoResp' = EchoHttp(200, MethodNotFound, Some(EchoRequestId))
            /\ UNCHANGED faults
    /\ UNCHANGED <<sessions, sess, now, timers, progressThreads, streams, wire,
                   deleting, reaper>>
    /\ EchoFrame

\* handle_events (GET /mcp); the model opens at most `max` streams
EchoConnectUpTo(sid, max) ==
    /\ IF sid = NoSid \/ sid \notin sessions
       THEN UNCHANGED <<streams, wire>>                 \* 404
       ELSE /\ Len(streams) < max
            /\ streams' = Append(streams, [sid |-> sid, pc |-> "open"])
            /\ wire' = Append(wire, <<>>)
    /\ UNCHANGED <<sessions, sess, now, timers, progressThreads, deleting, reaper, faults>>
    /\ echoResp' = IF sid = NoSid \/ sid \notin sessions
                   THEN EchoHttp(404, 0, None) ELSE EchoHttp(200, 0, None)
    /\ EchoFrame

EchoConnect(sid) == EchoConnectUpTo(sid, MaxStreams)
\* a client that sends GET /mcp for its session a second time
EchoConnectAgain(sid) == EchoConnectUpTo(sid, MaxReaders)

\* generate_events: one turn of `while session.active`
StreamNext(k) ==
    /\ k \in DOMAIN streams
    /\ streams[k].pc = "open"
    /\ LET s == streams[k].sid IN
       IF ~sess[s].active
       THEN /\ streams' = [streams EXCEPT ![k].pc = "ended"]
            /\ UNCHANGED <<sess, wire>>
       ELSE IF sess[s].event_queue # <<>>
       THEN /\ LET g == queue_get(sess[s].event_queue) IN
               /\ sess' = [sess EXCEPT ![s].event_queue = g.rest]
               /\ wire' = [wire EXCEPT ![k] = Append(@, g.item)]
            /\ UNCHANGED streams
       ELSE /\ TotalKeepalives < MaxKeepalives
            /\ wire' = [wire EXCEPT ![k] = Append(@, Keepalive)]
            /\ UNCHANGED <<sess, streams>>
    /\ UNCHANGED <<sessions, now, timers, progressThreads, deleting, reaper, faults>>
    /\ UNCHANGED echoResp
    /\ EchoFrame

\* generate_events: the client closes the connection while the generator is
\* suspended at a yield (GeneratorExit): session.active = False
StreamDisconnect(k) ==
    /\ k \in DOMAIN streams
    /\ streams[k].pc = "open"
    /\ wire[k] # <<>>
    /\ streams' = [streams EXCEPT ![k].pc = "closed"]
    /\ sess' = [sess EXCEPT ![streams[k].sid].active = FALSE]
    /\ UNCHANGED <<sessions, now, timers, progressThreads, wire, deleting, reaper,
                   faults>>
    /\ UNCHANGED echoResp
    /\ EchoFrame

InFlightDeletes == LET RECURSIVE Sum(_)
                       Sum(S) == IF S = {} THEN 0
                                 ELSE LET x == CHOOSE y \in S : TRUE
                                      IN deleting[x] + Sum(S \ {x})
                   IN Sum(DOMAIN deleting)

\* handle_session_termination: `if session_id in sessions:`
DeleteCheck(sid) ==
    /\ IF sid \in sessions
       THEN /\ InFlightDeletes < MaxDeleters
            /\ deleting' = [deleting EXCEPT ![sid] = @ + 1]
       ELSE UNCHANGED deleting                          \* 404
    /\ UNCHANGED <<sessions, sess, now, timers, progressThreads, streams, wire,
                   reaper, faults>>
    /\ echoResp' = IF sid \in sessions THEN echoResp ELSE EchoHttp(404, 0, None)
    /\ EchoFrame

\* handle_session_termination: session = sessions[id]; active = False; del sessions[id]
DeleteRemove(sid) ==
    /\ sid \in DOMAIN deleting
    /\ deleting[sid] > 0
    /\ deleting' = [deleting EXCEPT ![sid] = @ - 1]
    /\ IF sid \in sessions
       THEN /\ sess' = [sess EXCEPT ![sid].active = FALSE]
            /\ sessions' = sessions \ {sid}
            /\ UNCHANGED faults
       ELSE /\ faults' = faults \cup {"DELETE"}          \* KeyError
            /\ UNCHANGED <<sess, sessions>>
    /\ UNCHANGED <<now, timers, progressThreads, streams, wire, reaper>>
    /\ echoResp' = IF sid \in sessions THEN EchoHttp(200, 0, None) ELSE RawFault
    /\ EchoFrame

\* cleanup_inactive_sessions: wake up, read the clock, start
\* `for session_id, session in sessions.items()`: the iterator notes the
\* dict's size
ReaperScan ==
    /\ reaper.pc = "sleep"
    /\ reaper' = [pc |-> "scan", inactive |-> <<>>, pos |-> 0,
                  size |-> Cardinality(sessions)]
    /\ UNCHANGED <<sessions, sess, now, timers, progressThreads, streams, wire,
                   deleting, faults>>
    /\ UNCHANGED echoResp
    /\ EchoFrame

\* the keys the iterator has not passed yet (ids are inserted in increasing
\* order), and the one it yields next
ReaperAhead == {s \in sessions : s > reaper.pos}
ReaperNextKey == CHOOSE s \in ReaperAhead : \A o \in ReaperAhead : s <= o

\* one step of the iterator. It raises RuntimeError ("dictionary changed
\* size during iteration") if the dict's size is no longer the one noted,
\* which ends the thread; otherwise the loop body tests the next session,
\* or the loop is over
ReaperVisit ==
    /\ reaper.pc = "scan"
    /\ IF Cardinality(sessions) # reaper.size
       THEN /\ faults' = faults \cup {"reaper_scan"}
            /\ reaper' = ReaperAt("dead", reaper.inactive)
       ELSE /\ UNCHANGED faults
            /\ IF ReaperAhead = {}
               THEN reaper' = ReaperAt(IF reaper.inactive = <<>> THEN "sleep" ELSE "remove",
                                       reaper.inactive)
               ELSE LET s == ReaperNextKey IN
                    reaper' = [reaper EXCEPT
                                 !.pos = s,
                                 !.inactive = IF IsInactive(sess[s], now)
                                              THEN Append(@, s) ELSE @]
    /\ UNCHANGED <<sessions, sess, now, timers, progressThreads, streams, wire,
                   deleting>>
    /\ UNCHANGED echoResp
    /\ EchoFrame

\* cleanup_inactive_sessions: one turn of `for session_id in inactive_sessions`
ReaperRemove ==
    /\ reaper.pc = "remove"
    /\ LET sid == Head(reaper.inactive)
           rest == Tail(reaper.inactive)
       IN IF sid \in sessions
          THEN /\ sess' = [sess EXCEPT ![sid].active = FALSE]
               /\ sessions' = sessions \ {sid}
               /\ reaper' = ReaperAt(IF rest = <<>> THEN "sleep" ELSE "remove", rest)
               /\ UNCHANGED faults
          ELSE /\ faults' = faults \cup {"reaper"}       \* KeyError ends the thread
               /\ reaper' = ReaperAt("dead", rest)
               /\ UNCHANGED <<sess, sessions>>
    /\ UNCHANGED <<now, timers, progressThreads, streams, wire, deleting>>
    /\ UNCHANGED echoResp
    /\ EchoFrame

\* time passes: the clock is observed minutes apart, and neither a DELETE
\* handler nor one pass of the reaper's loop lasts that long
Tick(d) ==
    /\ now + d <= MaxClock
    /\ InFlightDeletes = 0
    /\ reaper.pc \notin {"scan", "remove"}
    /\ now' = now + d
    /\ UNCHANGED <<sessions, sess, timers, progressThreads, streams, wire, deleting,
                   reaper, faults>>
    /\ UNCHANGED echoResp
    /\ EchoFrame

\* producers, streams and explicit termination (POST, GET and DELETE /mcp with
\* the timer and progress threads)
NextEchoDelivery ==
    \/ EchoInitialize
    \/ \E sid \in EchoSidInputs : EchoInitialized(sid)
    \/ \E i \in 1..MaxTimers : PingWake(i)
    \/ \E i \in 1..MaxTimers : PingPut(i)
    \/ \E i \in 1..MaxTimers : PingCount(i)
    \/ \E i \in 1..MaxTimers : NotifWake(i)
    \/ \E i \in 1..MaxTimers : NotifPut(i)
    \/ \E sid \in EchoSidInputs, steps \in LongTaskSteps : EchoLongTask(sid, steps)
    \/ \E p \in 1..MaxProgressThreads : ProgressPut(p)
    \/ \E sid \in EchoSidInputs : EchoTrigger(sid)
    \/ \E sid \in EchoSidInputs : EchoConnect(sid)
    \/ \E k \in 1..MaxStreams : StreamNext(k)
    \/ \E k \in 1..MaxStreams : StreamDisconnect(k)
    \/ \E sid \in EchoSidInputs : DeleteCheck(sid)
    \/ \E sid \in EchoSessionIds : DeleteRemove(sid)

\* the three lifecycle-ending triggers (DELETE, reaper, stream disconnect)
\* with the clock and the pong that refreshes last_activity
NextEchoLifecycle ==
    \/ EchoInitialize
    \/ \E sid \in EchoSidInputs : EchoTrigger(sid)
    \/ \E sid \in EchoSidInputs : EchoPong(sid)
    \/ \E sid \in EchoSidInputs : EchoConnect(sid)
    \/ \E k \in 1..MaxStreams : StreamNext(k)
    \/ \E k \in 1..MaxStreams : StreamDisconnect(k)
    \/ \E sid \in EchoSidInputs : DeleteCheck(sid)
    \/ \E sid \in EchoSessionIds : DeleteRemove(sid)
    \/ ReaperScan
    \/ ReaperVisit
    \/ ReaperRemove
    \/ \E d \in TickSteps : Tick(d)

\* one session whose client sends notifications/initialized more than
\* once: the send_ping threads and the stream
NextEchoPings ==
    \/ EchoInitialize
    \/ \E sid \in EchoSidInputs : EchoInitializedAgain(sid)
    \/ \E i \in 1..MaxTimerPairs : PingWake(i)
    \/ \E i \in 1..MaxTimerPairs : PingPut(i)
    \/ \E i \in 1..MaxTimerPairs : PingCount(i)
    \/ \E sid \in EchoSidInputs : EchoConnect(sid)
    \/ \E k \in 1..MaxStreams : StreamNext(k)

\* one session, a producer, and GET /mcp sent more than once
NextEchoReaders ==
    \/ EchoInitialize
    \/ \E sid \in EchoSidInputs : EchoTrigger(sid)
    \/ \E sid \in EchoSidInputs : EchoConnectAgain(sid)
    \/ \E k \in 1..MaxReaders : StreamNext(k)
    \/ \E k \in 1..MaxReaders : StreamDisconnect(k)

\* the HTTP handlers of the echo server, well-formed and malformed requests
NextEchoDispatch ==
    \/ EchoInitialize
    \/ \E sid \in EchoSidInputs : EchoTrigger(sid)
    \/ \E sid \in EchoSidInputs : EchoPong(sid)
    \/ \E sid \in EchoSidInputs, body \in MalformedBodies : handle_rpc_malformed(sid, body)
    \/ \E sid \in EchoSidInputs : EchoConnect(sid)
    \/ \E k \in 1..MaxStreams : StreamNext(k)
    \/ \E k \in 1..MaxStreams : StreamDisconnect(k)
    \/ \E sid \in EchoSidInputs : DeleteCheck(sid)
    \/ \E sid \in EchoSessionIds : DeleteRemove(sid)

\* the two timer threads of a session against the ways its `active` flag is
\* cleared (DELETE /mcp, disconnect of the GET /mcp stream)
NextEchoTimers ==
    \/ EchoInitialize
    \/ \E sid \in EchoSidInputs : EchoInitialized(sid)
    \/ \E i \in 1..MaxTimers : PingWake(i)
    \/ \E i \in 1..MaxTimers : PingPut(i)
    \/ \E i \in 1..MaxTimers : PingCount(i)
    \/ \E i \in 1..MaxTimers : NotifWake(i)
    \/ \E i \in 1..MaxTimers : NotifPut(i)
    \/ \E sid \in EchoSidInputs : EchoConnect(sid)
    \/ \E k \in 1..MaxStreams : StreamNext(k)
    \/ \E k \in 1..MaxStreams : StreamDisconnect(k)
    \/ \E sid \in EchoSidInputs : DeleteCheck(sid)
    \/ \E sid \in EchoSessionIds : DeleteRemove(sid)

\* ========================================================================
\* PART 3 - elicitation/elicitation_streamable_server.py : correlation of
\*          server-to-client elicitation requests with the client's answers
\* ========================================================================

\* sessions created by the model (initialize, GET /sse, the /sse fallback)
MaxElicitSessions == 1
\* tools/call requests of a client that makes one call after the other
MaxCalls == 1
\* tools/call requests of a client that makes its calls at the same time
MaxConcurrentCalls == 2
\* GET /mcp and GET /sse connections
MaxElicitStreams == 1
\* events put on the sessions' queues
MaxElicitPuts == 3
\* sessions of the clients that call tools side by side
MaxToolSessions == 2

\* the id a client gives its own requests
ClientRequestId == 1000
\* an elicitation id no request_elicitation ever generated
UnknownEid == 999

ElicitSessionIds == 1..MaxElicitSessions
ElicitSidInputs == ElicitSessionIds \cup {NoSid, UnknownSid}
ToolNames == {"create_document", "delete_files", "deploy_application"}

\* what a client answers: {'action': ..., 'content': {'confirm': ...}}
Answer(action, confirm) == [action |-> action, confirm |-> confirm]
ClientAnswers == {Answer("accept", TRUE), Answer("decline", FALSE)}
\* request_elicitation's answer on timeout: {"action": "cancel"}
CancelAnswer == Answer("cancel", FALSE)

\* Session.__init__ of the elicitation server
ESession ==
    [ active                |-> TRUE,
      event_queue           |-> <<>>,
      pushed                |-> 0,      \* history: number of put() calls
      elicitation_responses |-> <<>>,   \* dict: elicitation id -> stored answer
      elicitation_events    |-> <<>> ]  \* dict: elicitation id -> Event is set

\* d[k] = v on a dict, `del d[k]` and d.get(k)
DictSet(d, k, v) == [x \in DOMAIN d \cup {k} |-> IF x = k THEN v ELSE d[x]]
DictDel(d, k) == [x \in DOMAIN d \ {k} |-> d[x]]
DictGet(d, k) == IF k \in DOMAIN d THEN Some(d[k]) ELSE None

\* a JSON-RPC envelope as the handlers read it
\* (args: whether params.arguments is a JSON object or null)
Envelope(method, id, name, eid, answer) ==
    [method |-> method, id |-> id, name |-> name, eid |-> eid, answer |-> answer,
     args |-> "object"]
EnvRequest(method) == Envelope(Some(method), Some(ClientRequestId), "", UnknownEid, CancelAnswer)
EnvNotification(method) == Envelope(Some(method), None, "", UnknownEid, CancelAnswer)
EnvToolsCall(name) == Envelope(Some("tools/call"), Some(ClientRequestId), name, UnknownEid, CancelAnswer)
\* a tools/call with "arguments": null
EnvToolsCallNullArgs(name) == [EnvToolsCall(name) EXCEPT !.args = "null"]
\* an answer sent as a request of method elicitation/response
EnvElicitationResponse(eid, answer) ==
    Envelope(Some("elicitation/response"), Some(ClientRequestId), "", eid, answer)
\* an answer sent as a JSON-RPC response: no method, the elicitation id as id, a result
EnvReply(eid, answer) == Envelope(None, Some(eid), "", eid, answer)

\* every elicitation id the server can generate: a tool asks at most twice
ElicitIds == 1..(2 * MaxConcurrentCalls)
Envelopes ==
    {EnvRequest("initialize"), EnvRequest("tools/list"),
     EnvNotification("notifications/initialized")}
    \cup {EnvToolsCall(n) : n \in ToolNames}
    \cup {EnvElicitationResponse(e, a) : e \in ElicitIds, a \in ClientAnswers}
    \cup {EnvReply(e, a) : e \in ElicitIds, a \in ClientAnswers}

\* a client can only answer an elicitation id it received on a stream (the
\* ids are uuid4 strings), or send an id of its own making
IsAnswer(env) == env.method \in {None, Some("elicitation/response")}
CanSend(env) == IsAnswer(env) => env.eid \in eseen \cup {UnknownEid}

EHttp(status, code) == [status |-> status, code |-> code]

TotalEPuts == SumSeq([i \in DOMAIN esess |-> esess[i].pushed])

\* session.event_queue.put(format_sse_event("message", ...))
equeue_put_Twice(session, kind, id, code) ==
    [session EXCEPT !.event_queue = Append(Append(@, [kind |-> kind, id |-> id, code |-> code]),
                                           [kind |-> kind, id |-> id, code |-> code]),
                    !.pushed = @ + 1]
equeue_put(session, kind, id, code) ==
    [session EXCEPT !.event_queue = Append(@, [kind |-> kind, id |-> id, code |-> code]),
                    !.pushed = @ + 1]

\* the resolver: store the answer, then set the Event if one is registered
\* (handle_rpc 549-557, handle_sse_rpc 755-760 and 862-868)
StoreAnswer_Oldest(session, eid, answer) ==
    LET pend == DOMAIN session.elicitation_events IN
    IF pend = {} THEN session
    ELSE LET k == CHOOSE x \in pend : \A y \in pend : x <= y
         IN [session EXCEPT !.elicitation_responses = DictSet(@, k, answer),
                            !.elicitation_events = DictSet(@, k, TRUE)]
StoreAnswer(session, eid, answer) ==
    [session EXCEPT
        !.elicitation_responses = DictSet(@, eid, answer),
        !.elicitation_events = IF eid \in DOMAIN @ THEN DictSet(@, eid, TRUE) ELSE @]

\* the resolver statement by statement: line 549 stores the answer, lines
\* 555-556 set the Event if one is registered
ResolverStore_SignalFirst(session, eid, answer) ==
    [session EXCEPT
        !.elicitation_events = IF eid \in DOMAIN @ THEN DictSet(@, eid, TRUE) ELSE @]
ResolverStore(session, eid, answer) ==
    [session EXCEPT !.elicitation_responses = DictSet(@, eid, answer)]
ResolverSignal(session, eid) ==
    [session EXCEPT
        !.elicitation_events = IF eid \in DOMAIN @ THEN DictSet(@, eid, TRUE) ELSE @]

\* history kept with each elicitation: the first answer a client sent for
\* it, and all the answers sent for it
NoteAnswer(el, sid, eid, answer) ==
    IF eid \in DOMAIN el /\ el[eid].sid = sid
    THEN [el EXCEPT ![eid].first = IF @ = None THEN Some(answer) ELSE @,
                    ![eid].sent = @ \cup {answer}]
    ELSE el

InitElicit ==
    /\ esessions = {}
    /\ esess = <<>>
    /\ calls = <<>>
    /\ elicits = <<>>
    /\ estreams = <<>>
    /\ eseen = {}
    /\ eResp = EHttp(0, 0)

\* a tools/call handler starts execute_tool in a thread and joins it
StartCall(sid, name, args, via) ==
    /\ calls' = Append(calls, [sid |-> sid, tool |-> name, args |-> args,
                               via |-> via, pc |-> "start",
                               eid |-> UnknownEid, n |-> 0, result |-> "",
                               handler |-> "joining"])

\* handle_rpc (POST /mcp); the model creates at most `max` sessions
McpPostUpTo(sid, env, max) ==
    /\ IF env.method = Some("initialize")
       THEN /\ Len(esess) < max
            /\ esess' = Append(esess, ESession)
            /\ esessions' = esessions \cup {Len(esess) + 1}
            /\ eResp' = EHttp(200, 0)
            /\ UNCHANGED <<calls, elicits>>
       ELSE IF env.method = Some("notifications/initialized")
       THEN /\ eResp' = EHttp(202, 0)
            /\ UNCHANGED <<esessions, esess, calls, elicits>>
       ELSE IF env.method = Some("tools/list")
       THEN /\ eResp' = EHttp(200, 0)
            /\ UNCHANGED <<esessions, esess, calls, elicits>>
       ELSE IF env.method = Some("tools/call")
       THEN IF sid = NoSid \/ sid \notin esessions
            THEN /\ eResp' = EHttp(200, InternalError)
                 /\ UNCHANGED <<esessions, esess, calls, elicits>>
            ELSE /\ StartCall(sid, env.name, env.args, "mcp")
                 /\ UNCHANGED <<esessions, esess, elicits, eResp>>
       ELSE IF env.method = Some("elicitation/response")
       THEN IF sid # NoSid /\ sid \in esessions
            THEN /\ esess' = [esess EXCEPT ![sid] = StoreAnswer(@, env.eid, env.answer)]
                 /\ elicits' = NoteAnswer(elicits, sid, env.eid, env.answer)
                 /\ eResp' = EHttp(202, 0)
                 /\ UNCHANGED <<esessions, calls>>
            ELSE /\ eResp' = EHttp(404, 0)
                 /\ UNCHANGED <<esessions, esess, calls, elicits>>
       ELSE /\ eResp' = EHttp(200, MethodNotFound)
            /\ UNCHANGED <<esessions, esess, calls, elicits>>
    /\ UNCHANGED <<estreams, eseen>>
    /\ ElicitFrame

McpPost(sid, env) == McpPostUpTo(sid, env, MaxElicitSessions)

\* handle_sse_rpc, lines 711-730: the session the request is handled on
\* (0 stands for "create a new one")
FirstActive == LET act == {s \in esessions : esess[s].active}
               IN IF act = {} THEN 0 ELSE CHOOSE s \in act : \A t \in act : s <= t
SseSession(sid) == IF sid # NoSid /\ sid \in esessions THEN sid ELSE FirstActive

\* handle_sse_rpc (POST /sse); the model creates at most `max` sessions
SsePostUpTo(sid, env, max) ==
    LET found == SseSession(sid)
        s == IF found = 0 THEN Len(esess) + 1 ELSE found
        base == IF found = 0 THEN Append(esess, ESession) ELSE esess
        Reply(code) ==
            /\ TotalEPuts < MaxElicitPuts
            /\ esess' = [base EXCEPT ![s] = equeue_put(@, "response", env.id, code)]
            /\ UNCHANGED <<calls, elicits>>
    IN
    /\ found = 0 => Len(esess) < max
    /\ esessions' = esessions \cup {s}
    /\ eResp' = EHttp(202, 0)
    /\ IF env.method # None /\ env.id = None
       THEN /\ esess' = base
            /\ UNCHANGED <<calls, elicits>>
       ELSE IF env.id # None /\ env.method = None
       THEN /\ esess' = [base EXCEPT ![s] = StoreAnswer(@, Val(env.id), env.answer)]
            /\ elicits' = NoteAnswer(elicits, s, Val(env.id), env.answer)
            /\ UNCHANGED calls
       ELSE IF env.method = Some("initialize") THEN Reply(0)
       ELSE IF env.method = Some("tools/list") THEN Reply(0)
       ELSE IF env.method = Some("tools/call")
       THEN /\ StartCall(s, env.name, env.args, "sse")
            /\ esess' = base
            /\ UNCHANGED elicits
       ELSE IF env.method = Some("elicitation/response")
       THEN /\ esess' = [base EXCEPT ![s] = StoreAnswer(@, env.eid, env.answer)]
            /\ elicits' = NoteAnswer(elicits, s, env.eid, env.answer)
            /\ UNCHANGED calls
       ELSE IF env.method = Some("ping") THEN Reply(0)
       ELSE Reply(MethodNotFound)
    /\ UNCHANGED <<estreams, eseen>>
    /\ ElicitFrame

SsePost(sid, env) == SsePostUpTo(sid, env, MaxElicitSessions)

\* what a tool does with the answer to its n-th elicitation: "" means it asks
\* again, anything else is what execute_tool leaves in result_container
\* (create_document_tool, delete_files_tool, deploy_application_tool)
ToolAfter(tool, n, response) ==
    IF response = None THEN "error"          \* None.get raises, caught by execute_tool
    ELSE LET r == Val(response) IN
    IF tool = "create_document"
    THEN IF r.action = "decline" THEN "declined"
         ELSE IF r.action = "cancel" THEN "cancelled"
         ELSE IF n = 1 THEN "" ELSE "created"
    ELSE IF tool = "delete_files"
    THEN IF r.action = "decline" THEN "declined"
         ELSE IF r.action = "cancel" THEN "cancelled"
         ELSE IF ~r.confirm THEN "not confirmed" ELSE "deleted"
    ELSE IF tool = "deploy_application"     \* environment: production
    THEN IF r.action # "accept" \/ ~r.confirm THEN "cancelled"
         ELSE IF n = 1 THEN "" ELSE "deployed"
    ELSE "error"

\* the tool thread continues with the answer to its elicitation
Continue_AskAgain(call, response) == [call EXCEPT !.pc = "start"]
Continue(call, response) ==
    LET res == ToolAfter(call.tool, call.n, response)
    IN IF res = "" THEN [call EXCEPT !.pc = "start"]
       ELSE [call EXCEPT !.pc = "finished", !.result = res]

\* request_elicitation, lines 128-147: register the Event, put the request
ElicitStart(c) ==
    /\ c \in DOMAIN calls
    /\ calls[c].pc = "start"
    /\ calls[c].args = "object"
    /\ TotalEPuts < MaxElicitPuts
    /\ LET eid == Len(elicits) + 1
           s == calls[c].sid
       IN /\ elicits' = Append(elicits, [sid |-> s, call |-> c, how |-> "pending",
                                         returned |-> None, first |-> None,
                                         sent |-> {}])
          /\ esess' = [esess EXCEPT ![s] =
                         [equeue_put(@, "elicitation", Some(eid), 0)
                            EXCEPT !.elicitation_events = DictSet(@, eid, FALSE)]]
          /\ calls' = [calls EXCEPT ![c].pc = "wait", ![c].eid = eid, ![c].n = @ + 1]
    /\ UNCHANGED <<esessions, estreams, eseen, eResp>>
    /\ ElicitFrame

\* the tool's first statement, tool_args.get(...), raises AttributeError
\* when arguments is null; execute_tool's except clause stores the error
ToolRaise(c) ==
    /\ c \in DOMAIN calls
    /\ calls[c].pc = "start"
    /\ calls[c].args = "null"
    /\ calls' = [calls EXCEPT ![c].pc = "finished", ![c].result = "error"]
    /\ UNCHANGED <<esessions, esess, elicits, estreams, eseen, eResp>>
    /\ ElicitFrame

\* request_elicitation, lines 154-163: the wait returns True; read the stored
\* answer, delete both entries, return the answer
ElicitReturn(c) ==
    /\ c \in DOMAIN calls
    /\ calls[c].pc = "wait"
    /\ LET eid == calls[c].eid
           s == calls[c].sid
           response == DictGet(esess[s].elicitation_responses, eid)
       IN /\ esess[s].elicitation_events[eid]
          /\ esess' = [esess EXCEPT ![s].elicitation_events = DictDel(@, eid),
                                    ![s].elicitation_responses = DictDel(@, eid)]
          /\ elicits' = [elicits EXCEPT ![eid].how = "answer", ![eid].returned = response]
          /\ calls' = [calls EXCEPT ![c] = Continue(@, response)]
    /\ UNCHANGED <<esessions, estreams, eseen, eResp>>
    /\ ElicitFrame

\* request_elicitation, lines 164-168: the wait times out; delete the Event,
\* return {"action": "cancel"}
ElicitTimeout(c) ==
    /\ c \in DOMAIN calls
    /\ calls[c].pc = "wait"
    /\ LET eid == calls[c].eid
           s == calls[c].sid
       IN /\ ~esess[s].elicitation_events[eid]
          /\ esess' = [esess EXCEPT ![s].elicitation_events = DictDel(@, eid)]
          /\ elicits' = [elicits EXCEPT ![eid].how = "timeout",
                                        ![eid].returned = Some(CancelAnswer)]
          /\ calls' = [calls EXCEPT ![c] = Continue(@, Some(CancelAnswer))]
    /\ UNCHANGED <<esessions, estreams, eseen, eResp>>
    /\ ElicitFrame

\* the code of the response: 0 for a result, -32603 when result_container
\* has no 'result' (the tool raised, or join gave up)
ToolResponseCode_Result(call) == 0
ToolResponseCode(call) ==
    IF call.pc = "finished" /\ call.result # "error" THEN 0 ELSE InternalError

\* the tools/call handler after tool_thread.join: answer inline (POST /mcp) or
\* put the response on the session's queue (POST /sse)
ToolRespond(c) ==
    /\ c \in DOMAIN calls
    /\ calls[c].handler = "joining"
    /\ \/ calls[c].pc = "finished"
       \* join(timeout=180) gives up: only a second 120 s wait can outlast it
       \/ calls[c].pc = "wait" /\ calls[c].n = 2
    /\ LET code == ToolResponseCode(calls[c])
       IN IF calls[c].via = "mcp"
          THEN /\ eResp' = EHttp(200, code)
               /\ UNCHANGED esess
          ELSE /\ TotalEPuts < MaxElicitPuts
               /\ esess' = [esess EXCEPT ![calls[c].sid] =
                              equeue_put(@, "response", Some(ClientRequestId), code)]
               /\ eResp' = EHttp(202, 0)
    /\ calls' = [calls EXCEPT ![c].handler = "responded"]
    /\ UNCHANGED <<esessions, elicits, estreams, eseen>>
    /\ ElicitFrame

\* handle_events (GET /mcp)
McpConnect(sid) ==
    /\ IF sid = NoSid \/ sid \notin esessions
       THEN /\ eResp' = EHttp(404, 0)
            /\ UNCHANGED estreams
       ELSE /\ Len(estreams) < MaxElicitStreams
            /\ estreams' = Append(estreams, [sid |-> sid, kind |-> "mcp", pc |-> "open"])
            /\ eResp' = EHttp(200, 0)
    /\ UNCHANGED <<esessions, esess, calls, elicits, eseen>>
    /\ ElicitFrame

\* handle_sse_stream (GET /sse): a new session with its stream
SseConnect ==
    /\ Len(esess) < MaxElicitSessions
    /\ Len(estreams) < MaxElicitStreams
    /\ esess' = Append(esess, ESession)
    /\ esessions' = esessions \cup {Len(esess) + 1}
    /\ estreams' = Append(estreams, [sid |-> Len(esess) + 1, kind |-> "sse", pc |-> "open"])
    /\ eResp' = EHttp(200, 0)
    /\ UNCHANGED <<calls, elicits, eseen>>
    /\ ElicitFrame

\* generate_events / generate_sse_events: one turn of `while session.active`
\* that yields an event (an empty queue yields a keepalive comment)
EStreamNext(k) ==
    /\ k \in DOMAIN estreams
    /\ estreams[k].pc = "open"
    /\ LET s == estreams[k].sid IN
       IF ~esess[s].active
       THEN /\ estreams' = [estreams EXCEPT ![k].pc = "ended"]
            /\ UNCHANGED <<esess, eseen>>
       ELSE /\ esess[s].event_queue # <<>>
            /\ LET ev == Head(esess[s].event_queue) IN
               /\ esess' = [esess EXCEPT ![s].event_queue = Tail(@)]
               /\ eseen' = IF ev.kind = "elicitation" THEN eseen \cup ev.id ELSE eseen
            /\ UNCHANGED estreams
    /\ UNCHANGED <<esessions, calls, elicits, eResp>>
    /\ ElicitFrame

\* the client closes the stream: GeneratorExit. Only generate_sse_events
\* ends the session (active = False; del sessions[id] if present)
EStreamDisconnect(k) ==
    /\ k \in DOMAIN estreams
    /\ estreams[k].pc = "open"
    /\ estreams' = [estreams EXCEPT ![k].pc = "closed"]
    /\ IF estreams[k].kind = "sse"
       THEN /\ esess' = [esess EXCEPT ![estreams[k].sid].active = FALSE]
            /\ esessions' = esessions \ {estreams[k].sid}
       ELSE UNCHANGED <<esess, esessions>>
    /\ UNCHANGED <<calls, elicits, eseen, eResp>>
    /\ ElicitFrame

\* handle_session_termination (DELETE /mcp)
EDelete(sid) ==
    /\ IF sid \in esessions
       THEN /\ esess' = [esess EXCEPT ![sid].active = FALSE]
            /\ esessions' = esessions \ {sid}
            /\ eResp' = EHttp(200, 0)
       ELSE /\ eResp' = EHttp(404, 0)
            /\ UNCHANGED <<esess, esessions>>
    /\ UNCHANGED <<calls, elicits, estreams, eseen>>
    /\ ElicitFrame

\* a client's POST /mcp and POST /sse; this client has at most MaxCalls
\* tools/call requests
CallRoom(env, max) == env.method = Some("tools/call") => Len(calls) < max
PostMcp(sid, env) == CanSend(env) /\ CallRoom(env, MaxCalls) /\ McpPost(sid, env)
PostSse(sid, env) == CanSend(env) /\ CallRoom(env, MaxCalls) /\ SsePost(sid, env)

\* requests, tool threads and streams, with no session ending
NextElicit ==
    \/ \E sid \in ElicitSidInputs, env \in Envelopes : PostSse(sid, env)
    \/ \E sid \in ElicitSidInputs, env \in Envelopes : PostMcp(sid, env)
    \/ \E c \in 1..MaxCalls : ElicitStart(c)
    \/ \E c \in 1..MaxCalls : ElicitReturn(c)
    \/ \E c \in 1..MaxCalls : ElicitTimeout(c)
    \/ \E c \in 1..MaxCalls : ToolRespond(c)
    \/ \E sid \in ElicitSidInputs : McpConnect(sid)
    \/ SseConnect
    \/ \E k \in 1..MaxElicitStreams : EStreamNext(k)

\* a client of POST /mcp that initializes, calls delete_files up to
\* MaxConcurrentCalls times without waiting, and answers what it is asked
PairEnvelopes ==
    {EnvRequest("initialize"), EnvToolsCall("delete_files")}
    \cup {EnvElicitationResponse(e, a) : e \in ElicitIds \cup {UnknownEid},
                                          a \in ClientAnswers}
PostPair(sid, env) ==
    /\ CanSend(env)
    /\ CallRoom(env, MaxConcurrentCalls)
    /\ McpPost(sid, env)

\* concurrent tool calls on one session
NextElicitPair ==
    \/ \E sid \in ElicitSessionIds, env \in PairEnvelopes : PostPair(sid, env)
    \/ \E c \in 1..MaxConcurrentCalls : ElicitStart(c)
    \/ \E c \in 1..MaxConcurrentCalls : ElicitReturn(c)
    \/ \E c \in 1..MaxConcurrentCalls : ElicitTimeout(c)
    \/ \E c \in 1..MaxConcurrentCalls : ToolRespond(c)
    \/ \E sid \in ElicitSessionIds : McpConnect(sid)
    \/ \E k \in 1..MaxElicitStreams : EStreamNext(k)

\* a method name no branch of handle_rpc or handle_sse_rpc tests for
UnknownMethod == "no/such"
\* a client that sends requests and notifications of known and unknown
\* methods, none of them a tools/call or an answer
DispatchEnvelopes ==
    {EnvRequest("initialize"), EnvRequest("tools/list"), EnvRequest("ping"),
     EnvRequest(UnknownMethod), EnvNotification("notifications/initialized"),
     EnvNotification(UnknownMethod)}
DispatchMcp(sid, env) == McpPost(sid, env)
DispatchSse(sid, env) == SsePost(sid, env)

\* the dispatch of the two submit endpoints, with streams and DELETE
NextElicitDispatch ==
    \/ \E sid \in ElicitSidInputs, env \in DispatchEnvelopes : DispatchMcp(sid, env)
    \/ \E sid \in ElicitSidInputs, env \in DispatchEnvelopes : DispatchSse(sid, env)
    \/ \E sid \in ElicitSidInputs : McpConnect(sid)
    \/ SseConnect
    \/ \E k \in 1..MaxElicitStreams : EStreamNext(k)
    \/ \E sid \in ElicitSidInputs : EDelete(sid)

\* clients with a session each, one of which calls delete_files, with
\* arguments that are an object or null, on either submit endpoint
ToolSessionIds == 1..MaxToolSessions
ToolsEnvelopes ==
    {EnvRequest("initialize"), EnvToolsCall("delete_files"),
     EnvToolsCallNullArgs("delete_files")}
    \cup {EnvElicitationResponse(e, a) : e \in ElicitIds, a \in ClientAnswers}
ToolsMcp(sid, env) ==
    /\ CanSend(env)
    /\ CallRoom(env, MaxCalls)
    /\ McpPostUpTo(sid, env, MaxToolSessions)
ToolsSse(sid, env) ==
    /\ CanSend(env)
    /\ CallRoom(env, MaxCalls)
    /\ env.method # Some("initialize")
    /\ SsePostUpTo(sid, env, MaxToolSessions)

\* tool threads that answer, time out or raise, beside another session
NextElicitTools ==
    \/ \E sid \in ToolSessionIds, env \in ToolsEnvelopes : ToolsMcp(sid, env)
    \/ \E sid \in ToolSessionIds, env \in ToolsEnvelopes : ToolsSse(sid, env)
    \/ \E c \in 1..MaxCalls : ToolRaise(c)
    \/ \E c \in 1..MaxCalls : ElicitStart(c)
    \/ \E c \in 1..MaxCalls : ElicitReturn(c)
    \/ \E c \in 1..MaxCalls : ElicitTimeout(c)
    \/ \E c \in 1..MaxCalls : ToolRespond(c)
    \/ \E sid \in ToolSessionIds : McpConnect(sid)
    \/ \E k \in 1..MaxElicitStreams : EStreamNext(k)

\* the same with the ends of a session: stream disconnect and DELETE
NextElicitLifecycle ==
    \/ NextElicit
    \/ \E k \in 1..MaxElicitStreams : EStreamDisconnect(k)
    \/ \E sid \in ElicitSidInputs : EDelete(sid)

\* @@VARS@@
vars == <<taskVars, echoVars, elicitVars>>

Init == InitTasks /\ InitEcho /\ InitElicit

\* the task server alone
SpecTasks == Init /\ [][NextTasks]_vars

\* the worker is a thread of its own: its sleeps end and it gets the lock
WorkerRuns(t) ==
    \/ WorkerStart(t) \/ WorkerStep(t) \/ WorkerNotify(t)
    \/ WorkerFinish(t) \/ WorkerFinishResult(t)
SpecStdio == Init /\ [][NextStdio]_vars
SpecTasksFair == SpecTasks /\ \A t \in TaskIds : WF_vars(WorkerRuns(t))

\* the event channel alone: a handler and a thread as producers, one reader
NextEchoOrder ==
    \/ EchoInitialize
    \/ \E sid \in EchoSidInputs, steps \in LongTaskSteps : EchoLongTask(sid, steps)
    \/ \E p \in 1..MaxProgressThreads : ProgressPut(p)
    \/ \E sid \in EchoSidInputs : EchoTrigger(sid)
    \/ \E sid \in EchoSidInputs : EchoConnect(sid)
    \/ \E k \in 1..MaxStreams : StreamNext(k)
    \/ \E k \in 1..MaxStreams : StreamDisconnect(k)

\* the echo server: the event channel
SpecEchoOrder == Init /\ [][NextEchoOrder]_vars

\* the generator of an open stream is pulled for as long as the response is
\* being sent: its loop does not stay suspended at a yield
SpecEchoOrderFair ==
    SpecEchoOrder /\ \A k \in 1..MaxStreams : WF_vars(StreamNext(k))

\* the echo server: event delivery
SpecEchoDelivery == Init /\ [][NextEchoDelivery]_vars

\* the echo server: session lifecycle
SpecEchoLifecycle == Init /\ [][NextEchoLifecycle]_vars

\* the elicitation server
SpecEchoPings == Init /\ [][NextEchoPings]_vars
SpecEchoReaders == Init /\ [][NextEchoReaders]_vars
SpecEchoDispatch == Init /\ [][NextEchoDispatch]_vars
SpecEchoTimers == Init /\ [][NextEchoTimers]_vars
\* the timer threads are daemon threads the interpreter keeps scheduling:
\* time.sleep returns and Queue.put on the unbounded queue does not block
SpecEchoTimersFair ==
    /\ SpecEchoTimers
    /\ \A i \in 1..MaxTimers :
          /\ WF_vars(PingWake(i)) /\ WF_vars(PingPut(i)) /\ WF_vars(PingCount(i))
          /\ WF_vars(NotifWake(i)) /\ WF_vars(NotifPut(i))
SpecElicit == Init /\ [][NextElicit]_vars
SpecElicitLifecycle == Init /\ [][NextElicitLifecycle]_vars
SpecElicitPair == Init /\ [][NextElicitPair]_vars
SpecElicitTools == Init /\ [][NextElicitTools]_vars
SpecElicitDispatch == Init /\ [][NextElicitDispatch]_vars

\* ------------------------------------------------------------------------
\* Properties of the task registry
\* ------------------------------------------------------------------------

\* C2: a task never leaves a terminal state: once its state is completed,
\* failed or cancelled, no step of tasks/cancel or of the worker changes it.
TerminalIsFinal ==
    [][\A t \in DOMAIN tasks :
          tasks[t].state \in TerminalStates => tasks'[t].state = tasks[t].state]_vars

\* C9: a tasks/cancel on a task whose state is already terminal is answered
\* with error -32602 and leaves every field of every task record unchanged.
CancelOfTerminalRejected ==
    [][\A id \in TaskIds :
          (handle_tasks_cancel(id) /\ id \in DOMAIN tasks
                                   /\ tasks[id].state \in TerminalStates)
          => /\ tasks' = tasks
             /\ lastResponse' = make_error(InvalidParams)
             /\ mainPc' = "idle"]_vars

\* C9 witness: a completed task whose cancel was just refused with -32602
CancelOfTerminalSeen ==
    /\ lastRequest.method = "tasks/cancel"
    /\ lastRequest.id \in DOMAIN tasks
    /\ tasks[lastRequest.id].state = "completed"
    /\ tasks[lastRequest.id].result # None
    /\ lastResponse = make_error(InvalidParams)

\* C10: progress never decreases, and once total is set 0 <= progress <= total,
\* in every state and across every step of worker, tasks/get and tasks/cancel.
ProgressMonotoneBounded ==
    [][\A t \in DOMAIN tasks :
          /\ tasks[t].progress # None
                => /\ tasks'[t].progress # None
                   /\ Val(tasks'[t].progress) >= Val(tasks[t].progress)
          /\ tasks[t].total # None => tasks'[t].total = tasks[t].total
          /\ tasks'[t].total # None
                => /\ tasks'[t].progress # None
                   /\ 0 <= Val(tasks'[t].progress)
                   /\ Val(tasks'[t].progress) <= Val(tasks'[t].total)]_vars

\* C10 witness: a task cancelled in mid-run whose worker has stopped, read by
\* tasks/get, with progress strictly between 0 and total
ProgressSeenUnderCancel ==
    \E t \in DOMAIN tasks :
        /\ tasks[t].state = "cancelled"
        /\ worker[t].pc = "done"
        /\ tasks[t].total = Some(TaskTotal)
        /\ tasks[t].progress = Some(3)
        /\ lastRequest.method = "tasks/get" /\ lastRequest.id = t
        /\ lastResponse.kind = "result"

\* ------------------------------------------------------------------------
\* Properties of the echo server
\* ------------------------------------------------------------------------

\* C1: once a session is terminated (active is false), no producer adds to
\* its event queue any more and nothing more is delivered from it.
PushAfterTerminateDropped ==
    [][\A s \in DOMAIN sess :
          ~sess[s].active => /\ sess'[s].pushed = sess[s].pushed
                             /\ sess'[s].event_queue = sess[s].event_queue]_vars

\* C4: none of the termination paths (DELETE handler, reaper loop, stream
\* disconnect) ever fails on a session that another path removed first.
NoTerminationFault == faults \cap {"DELETE", "reaper"} = {}

\* the events stream k has yielded, and the streams reading session s
Yielded(k) == EventsOn(wire[k])
StreamsOf(s) == {k \in DOMAIN streams : streams[k].sid = s}
Increasing(q) == \A i, j \in DOMAIN q : i < j => q[i].seq < q[j].seq

\* C6: events of a session are yielded in enqueue order: every stream yields
\* strictly increasing put numbers, what is still queued comes after all that
\* was yielded, and yielded plus queued events are exactly the puts 1..pushed
\* (none merged, dropped or displaced by a keepalive comment).
EventsInOrder ==
    \A s \in DOMAIN sess :
        LET q == sess[s].event_queue
            out == UNION {{Yielded(k)[i].seq : i \in DOMAIN Yielded(k)} : k \in StreamsOf(s)}
        IN /\ Increasing(q)
           /\ \A k \in StreamsOf(s) : Increasing(Yielded(k))
           /\ \A i \in DOMAIN q : \A n \in out : n < q[i].seq
           /\ out \cup {q[i].seq : i \in DOMAIN q} = 1..sess[s].pushed
           /\ SumSeq([k \in DOMAIN streams |->
                        IF streams[k].sid = s THEN Len(Yielded(k)) ELSE 0])
                + Len(q) = sess[s].pushed

\* C6 witness: one stream has yielded three events of two producers, in put
\* order, with a keepalive comment before the last of them
ThreeEventsYielded ==
    \E k \in DOMAIN streams :
        /\ Len(Yielded(k)) = 3
        /\ {Yielded(k)[i].kind : i \in 1..3} = {"manual", "progress"}
        /\ Len(wire[k]) = 4
        /\ \E i \in 1..3 : wire[k][i] = Keepalive

\* what tasks/get shows of a task that ran to the end
CompletedSnapshot(snap) ==
    /\ snap.state = "completed"
    /\ snap.progress = Some(TaskTotal)
    /\ snap.total = Some(TaskTotal)
    /\ snap.result # None

\* C11: a task that is created and never cancelled eventually becomes
\* completed; from then on it stays completed, and every tasks/get that finds
\* it completed returns state completed, progress 5, total 5 and a result.
CompletesAndStays ==
    /\ \A t \in TaskIds :
          (t \in DOMAIN tasks)
             ~> (t \in DOMAIN tasks /\ tasks[t].state \in {"completed", "cancelled"})
    /\ [][\A t \in DOMAIN tasks :
            tasks[t].state = "completed" => tasks'[t].state = "completed"]_vars
    /\ [][\A t \in DOMAIN tasks :
            ( /\ lastRequest = Request("tasks/get", t, "completed")
              /\ SendTaskResponse )
            => /\ lastResponse'.kind = "result"
               /\ CompletedSnapshot(Val(lastResponse'.snap))]_vars

\* a task went through all five steps without a cancel and tasks/get showed it
CompletedTaskRead ==
    \E t \in DOMAIN tasks :
        /\ tasks[t].message = <<"All steps done">>
        /\ worker[t].pc = "done"
        /\ lastRequest = Request("tasks/get", t, "completed")
        /\ mainPc = "idle"
        /\ lastResponse.kind = "result"
        /\ CompletedSnapshot(Val(lastResponse.snap))

\* C14: every snapshot returned by tasks/get or tasks/cancel has a result
\* if and only if its state is completed, under any interleaving with the
\* worker.
SnapshotStateResultAgree ==
    (lastRequest.method \in {"tasks/get", "tasks/cancel"} /\ lastResponse.kind = "result")
    => LET snap == Val(lastResponse.snap)
       IN snap.result # None <=> snap.state = "completed"

\* C15: once a tasks/cancel has succeeded for a task (its state is
\* cancelled), no notifications/progress is written for it any more and its
\* progress and message stay as they are.
CancelStopsWorker ==
    [][\A t \in DOMAIN tasks :
          tasks[t].state = "cancelled"
          => /\ progressOut'[t] = progressOut[t]
             /\ tasks'[t].progress = tasks[t].progress
             /\ tasks'[t].message = tasks[t].message]_vars

\* C16: tasks/create stores a pending record, starts one worker for the new
\* id and no other, and answers with a snapshot in state pending that has no
\* progress, total or result; there is always exactly one worker per task.
CreateReportsPending ==
    /\ [](DOMAIN worker = DOMAIN tasks)
    /\ [][\A tok \in {None} \cup {Some(k) : k \in Tokens} :
            handle_tasks_create(tok)
            => LET id == Len(tasks) + 1
                   snap == Val(lastResponse'.snap)
               IN /\ DOMAIN tasks' = DOMAIN tasks \cup {id}
                  /\ tasks'[id].state = "pending"
                  /\ DOMAIN worker' = DOMAIN worker \cup {id}
                  /\ worker'[id].pc = "start"
                  /\ \A o \in DOMAIN worker : worker'[o] = worker[o]
                  /\ lastResponse'.kind = "result"
                  /\ snap.state = "pending"
                  /\ snap.progress = None /\ snap.total = None /\ snap.result = None]_vars

\* the create response shows pending while the worker has already begun
CreateAnsweredWorkerRunning ==
    \E t \in DOMAIN tasks :
        /\ lastRequest = Request("tasks/create", t, "pending")
        /\ lastResponse.kind = "result"
        /\ Val(lastResponse.snap).state = "pending"
        /\ worker[t].pc = "loop"
        /\ tasks[t].state = "running"

\* the session ids in a list
ListedIn(q) == {q[i] : i \in DOMAIN q}

\* C12: the reaper ends a session if and only if its last_activity is more
\* than 300 seconds old when the reaper looks: its scan starts with an empty
\* list, lists a session it looks at exactly if that session is older than
\* 300 s (301 s is listed, 299 s and 300 s are not) and changes nothing, and
\* a removal deactivates and removes the listed session and leaves every
\* other session in the store, active and unchanged.
ReaperThreshold ==
    [][ /\ ReaperScan =>
             /\ reaper'.inactive = <<>>
             /\ sess' = sess /\ sessions' = sessions
        /\ (ReaperVisit /\ reaper'.pc = "scan") =>
             LET s == reaper'.pos IN
             /\ s \in sessions
             /\ s \in ListedIn(reaper'.inactive)
                   <=> now - sess[s].last_activity > InactivityLimit
             /\ ListedIn(reaper'.inactive) \ {s} = ListedIn(reaper.inactive)
             /\ sess' = sess /\ sessions' = sessions
        /\ (ReaperVisit /\ reaper'.pc \in {"sleep", "remove"}) =>
             /\ reaper'.inactive = reaper.inactive
             /\ sess' = sess /\ sessions' = sessions
        /\ (ReaperRemove /\ Head(reaper.inactive) \in sessions) =>
             LET sid == Head(reaper.inactive) IN
             /\ ~sess'[sid].active
             /\ sessions' = sessions \ {sid}
             /\ \A o \in DOMAIN sess \ {sid} : sess'[o] = sess[o] ]_vars

\* the reaper found a session 301 seconds stale, still stored and active
StaleSessionListed ==
    \E s \in sessions :
        /\ reaper.pc = "remove"
        /\ reaper.inactive = <<s>>
        /\ sess[s].active
        /\ now - sess[s].last_activity = InactivityLimit + 1

\* C13: every POST that carries the id of a stored session (a tools/call as
\* well as a pong) sets that session's last_activity to the current time.
InboundRefreshesActivity ==
    [][\A sid \in EchoSessionIds :
          (sid \in sessions /\ (EchoTrigger(sid) \/ EchoPong(sid)))
          => sess'[sid].last_activity = now]_vars

\* ------------------------------------------------------------------------
\* Properties of the elicitation server
\* ------------------------------------------------------------------------

\* C3: an elicitation resolves at most once: a wait woken by an answer
\* returns exactly the first answer a client sent for its id, whatever is
\* sent for that id afterwards.
FirstAnswerWins ==
    \A e \in DOMAIN elicits :
        elicits[e].how = "answer" => elicits[e].returned = elicits[e].first

\* C5: a submit other than initialize whose session id is absent or not in
\* the store is rejected with a client error; it changes no existing session
\* (queue and correlation state included) and creates no session.
BadSessionRejected ==
    [][\A sid \in ElicitSidInputs, env \in Envelopes :
          ( /\ env.method # Some("initialize")
            /\ sid \notin esessions
            /\ PostMcp(sid, env) \/ PostSse(sid, env) )
          => /\ esessions' = esessions
             /\ esess' = esess
             /\ eResp'.status \in 400..499]_vars

\* C7: after an elicitation wait has timed out, request_elicitation has
\* returned {action: cancel} and the session holds no entry for that id, in
\* elicitation_events or in elicitation_responses, also when an answer
\* arrives at or after the timeout.
TimeoutLeavesNoEntry ==
    \A e \in DOMAIN elicits :
        elicits[e].how = "timeout" =>
            /\ elicits[e].returned = Some(CancelAnswer)
            /\ e \notin DOMAIN esess[elicits[e].sid].elicitation_events
            /\ e \notin DOMAIN esess[elicits[e].sid].elicitation_responses

\* C8: on both submit endpoints, an envelope without a method whose id is
\* that of a pending elicitation of the session and which carries a result
\* resolves that elicitation: the result is stored, the waiter's Event is
\* set, and no method-not-found error is answered.
ReplyResolvesWaiter ==
    [][\A sid \in ElicitSessionIds, e \in ElicitIds, a \in ClientAnswers :
          ( /\ sid \in esessions
            /\ e \in DOMAIN esess[sid].elicitation_events
            /\ PostMcp(sid, EnvReply(e, a)) \/ PostSse(sid, EnvReply(e, a)) )
          => /\ e \in DOMAIN esess'[sid].elicitation_events
             /\ esess'[sid].elicitation_events[e]
             /\ DictGet(esess'[sid].elicitation_responses, e) = Some(a)
             /\ eResp'.code # MethodNotFound]_vars

\* C17: answers are matched to waits by elicitation id only. With several
\* waits pending on a session, an answer carrying one id leaves the Event
\* and the stored answer of every other id as they are and returns no
\* waiter; a wait is woken only once an answer with its own id was sent, and
\* what it then returns is an answer that was sent with its id.
CorrelatedById ==
    /\ [](\A e \in DOMAIN elicits :
            /\ (e \in DOMAIN esess[elicits[e].sid].elicitation_events
                /\ esess[elicits[e].sid].elicitation_events[e])
                  => elicits[e].sent # {}
            /\ elicits[e].how = "answer"
                  => elicits[e].returned \in {Some(a) : a \in elicits[e].sent})
    /\ [][\A sid \in ElicitSessionIds, e \in ElicitIds, a \in ClientAnswers :
            (sid \in esessions /\ PostPair(sid, EnvElicitationResponse(e, a)))
            => /\ calls' = calls
               /\ \A o \in ElicitIds \ {e} :
                    /\ DictGet(esess'[sid].elicitation_events, o)
                          = DictGet(esess[sid].elicitation_events, o)
                    /\ DictGet(esess'[sid].elicitation_responses, o)
                          = DictGet(esess[sid].elicitation_responses, o)]_vars

\* two waits were pending on one session; the later one was answered and
\* has returned its answer while the earlier one is still blocked
LaterWaitAnsweredFirst ==
    \E a, b \in DOMAIN elicits :
        /\ a < b
        /\ elicits[a].sid = elicits[b].sid
        /\ {a, b} \subseteq eseen
        /\ elicits[a].how = "pending"
        /\ a \in DOMAIN esess[elicits[a].sid].elicitation_events
        /\ ~esess[elicits[a].sid].elicitation_events[a]
        /\ elicits[b].how = "answer"
        /\ elicits[b].returned = Some(Answer("accept", TRUE))
        /\ \E c \in DOMAIN calls : calls[c].eid = a /\ calls[c].pc = "wait"

\* C18: an elicitation/response whose id has no pending wait in the session
\* (unknown, already answered or already timed out) changes neither
\* elicitation_events nor elicitation_responses and is acknowledged with 202.
AnswerWithoutWaitIsNoOp ==
    [][\A sid \in ElicitSessionIds, e \in ElicitIds \cup {UnknownEid}, a \in ClientAnswers :
          ( /\ sid \in esessions
            /\ e \notin DOMAIN esess[sid].elicitation_events
            /\ \/ PostMcp(sid, EnvElicitationResponse(e, a))
               \/ PostSse(sid, EnvElicitationResponse(e, a))
               \/ PostPair(sid, EnvElicitationResponse(e, a)) )
          => /\ esess'[sid].elicitation_events = esess[sid].elicitation_events
             /\ esess'[sid].elicitation_responses = esess[sid].elicitation_responses
             /\ eResp' = EHttp(202, 0)]_vars

\* C19: a session whose active flag is false is no longer in the session
\* store: every trigger that ends a session, the disconnect of its delivery
\* stream included, both clears the flag and removes the session.
NoInactiveStored == \A s \in sessions : sess[s].active

\* C20: once a session's active flag is false, each of its timer threads
\* (send_ping, send_notifications) eventually leaves its loop, a thread that
\* has left its loop stays out, and a session all of whose timer threads
\* have left receives no further timer event.
TimersStop ==
    /\ \A i \in 1..MaxTimers :
          (i \in DOMAIN timers /\ ~sess[timers[i].sid].active)
             ~> (i \in DOMAIN timers /\ timers[i].ping = "exit"
                                     /\ timers[i].notif = "exit")
    /\ [][\A i \in DOMAIN timers :
             /\ timers[i].ping = "exit" => timers'[i].ping = "exit"
             /\ timers[i].notif = "exit" => timers'[i].notif = "exit"
             /\ (timers[i].ping = "exit" /\ timers[i].notif = "exit"
                   /\ \A j \in DOMAIN timers :
                         timers[j].sid = timers[i].sid
                            => timers[j].ping = "exit" /\ timers[j].notif = "exit")
                => sess'[timers[i].sid].pushed = sess[timers[i].sid].pushed]_vars
\* both timer threads of a terminated session have left their loops after
\* having fired
TimersStoppedAfterFiring ==
    \E i \in DOMAIN timers :
        /\ ~sess[timers[i].sid].active
        /\ timers[i].ping = "exit"
        /\ timers[i].notif = "exit"
        /\ sess[timers[i].sid].ping_count > 0
        /\ timers[i].notification_count > 0

\* session s has a stream whose generator is running
Connected(s) == \E k \in DOMAIN streams : streams[k].sid = s /\ streams[k].pc = "open"
\* how often put number n of session s is on the session's queue, and how
\* often it has been yielded on the session's streams
TimesQueued(s, n) ==
    Cardinality({i \in DOMAIN sess[s].event_queue : sess[s].event_queue[i].seq = n})
TimesYielded(s, n) ==
    SumSeq([k \in DOMAIN streams |->
              IF streams[k].sid = s
              THEN Cardinality({i \in DOMAIN Yielded(k) : Yielded(k)[i].seq = n})
              ELSE 0])

\* C21: while a session is active and its stream is connected no event is
\* lost or duplicated: every put made so far is either still queued or has
\* been yielded, exactly once in all, and a queued event is eventually
\* yielded unless the session is terminated or the stream disconnects first.
EveryEventYieldedOnce ==
    /\ [](\A s \in DOMAIN sess :
            (sess[s].active /\ Connected(s))
               => \A n \in 1..sess[s].pushed :
                     TimesQueued(s, n) + TimesYielded(s, n) = 1)
    /\ \A s \in EchoSessionIds, n \in 1..MaxEvents :
          (s \in DOMAIN sess /\ sess[s].active /\ Connected(s)
                             /\ TimesQueued(s, n) = 1)
             ~> (s \in DOMAIN sess
                 /\ \/ TimesYielded(s, n) = 1 /\ TimesQueued(s, n) = 0
                    \/ ~sess[s].active
                    \/ ~Connected(s))
\* a connected stream of an active session has yielded every put of two
\* producers and the queue is empty again
QueueDrainedToStream ==
    \E s \in DOMAIN sess :
        /\ sess[s].active /\ Connected(s)
        /\ sess[s].pushed >= 2
        /\ sess[s].event_queue = <<>>
        /\ \A n \in 1..sess[s].pushed : TimesYielded(s, n) = 1
        /\ \E k \in StreamsOf(s) :
              {Yielded(k)[i].kind : i \in DOMAIN Yielded(k)} = {"manual", "progress"}

\* C22: a request whose method no branch handles is answered with a
\* JSON-RPC error of code -32601 for its id (inline on POST /mcp, as the one
\* event put on the session's queue on POST /sse) and changes nothing else:
\* not the session store, no other queue content, no correlation state, no
\* tool call.
UnknownMethodAnswered ==
    [][\A sid \in ElicitSidInputs :
          LET env == EnvRequest(UnknownMethod) IN
          /\ DispatchMcp(sid, env)
                => /\ eResp' = EHttp(200, MethodNotFound)
                   /\ UNCHANGED <<esessions, esess, calls, elicits>>
          /\ DispatchSse(sid, env)
                => /\ eResp' = EHttp(202, 0)
                   /\ UNCHANGED <<esessions, calls, elicits>>
                   /\ DOMAIN esess' = DOMAIN esess
                   /\ \E s \in esessions :
                         esess' = [esess EXCEPT ![s] =
                                     equeue_put(@, "response", env.id, MethodNotFound)]]_vars

\* C23: every submit with a malformed envelope (unparsable body, a JSON
\* body that is not an object, an object without method) is answered with a
\* JSON-RPC error object whose id is the request's id if it can be recovered
\* and null otherwise, and nothing is raised past the handler.
MalformedEnvelopeAnswered ==
    [][\A sid \in EchoSidInputs, body \in MalformedBodies :
          handle_rpc_malformed(sid, body)
             => /\ echoResp'.code \in {MethodNotFound, InternalError}
                /\ echoResp'.id = RecoveredId(body)
                /\ faults' = faults]_vars

\* C24: no single input line ends the stdio server: after a line that is
\* not JSON, a JSON value that is not an object, a request whose params is
\* not an object or a request of an unknown method, the main loop is still
\* running.
MainLoopSurvives == mainPc # "crashed"

\* C25: a tools/call on the elicitation server whose Mcp-Session-Id names a
\* session that is not in the store is answered with the internal-error
\* code -32603; it starts no tool, issues no elicitation and changes no
\* session.
ToolsCallOnBadSessionRefused ==
    [][\A sid \in ElicitSidInputs \ {NoSid}, name \in ToolNames :
          ( /\ sid \notin esessions
            /\ \/ PostMcp(sid, EnvToolsCall(name))
               \/ PostSse(sid, EnvToolsCall(name)) )
          => /\ eResp'.code = InternalError
             /\ UNCHANGED <<calls, elicits, esessions, esess>>]_vars

\* the elicitations of call c that still have a wait handle registered
PendingOf(c) ==
    {e \in DOMAIN elicits :
        elicits[e].call = c /\ e \in DOMAIN esess[elicits[e].sid].elicitation_events}

\* C26: a multi-step tool asks sequentially: a tool invocation never has
\* more than one elicitation with a registered wait handle, and it issues
\* its second request only after the first has returned, by an answer that
\* was neither decline nor cancel (so not after a timeout), and the first's
\* wait handle has been removed.
ElicitationsSequential ==
    /\ [](\A c \in DOMAIN calls : Cardinality(PendingOf(c)) <= 1)
    /\ [][\A c \in DOMAIN calls :
             (ElicitStart(c) /\ calls[c].n >= 1)
                => LET e == calls[c].eid IN
                   /\ calls[c].tool \in {"create_document", "deploy_application"}
                   /\ PendingOf(c) = {}
                   /\ elicits[e].how = "answer"
                   /\ elicits[e].returned # None
                   /\ Val(elicits[e].returned).action \notin {"decline", "cancel"}
                   /\ calls'[c].n = calls[c].n + 1
                   /\ PendingOf(c)' = {Len(elicits) + 1}]_vars
\* a tool waits on its second elicitation after its first was accepted
SecondElicitationPending ==
    \E c \in DOMAIN calls :
        /\ calls[c].n = 2
        /\ calls[c].pc = "wait"
        /\ Cardinality(PendingOf(c)) = 1
        /\ \E e \in DOMAIN elicits :
              /\ elicits[e].call = c
              /\ elicits[e].how = "answer"
              /\ elicits[e].returned = Some(Answer("accept", TRUE))

\* C27: an exception raised inside a tool is caught by execute_tool: the
\* raising step changes no session, and the tools/call is then answered
\* with code -32603 for the request's id (inline on POST /mcp, as the one
\* event put on the caller's queue on POST /sse); the calling session stays
\* in the store and active and no other session changes.
ToolFaultContained ==
    [][\A c \in DOMAIN calls :
          /\ ToolRaise(c) => UNCHANGED <<esessions, esess, elicits>>
          /\ (ToolRespond(c) /\ calls[c].result = "error")
                => LET s == calls[c].sid IN
                   /\ IF calls[c].via = "mcp"
                      THEN /\ eResp' = EHttp(200, InternalError)
                           /\ esess' = esess
                      ELSE esess' = [esess EXCEPT ![s] =
                                       equeue_put(@, "response", Some(ClientRequestId),
                                                  InternalError)]
                   /\ esessions' = esessions
                   /\ s \in esessions'
                   /\ esess'[s].active
                   /\ \A o \in DOMAIN esess \ {s} : esess'[o] = esess[o]]_vars
\* a tool that raised has been answered while a second session exists
ToolFaultAnswered ==
    \E c \in DOMAIN calls :
        /\ calls[c].result = "error"
        /\ calls[c].handler = "responded"
        /\ \E o \in esessions : o # calls[c].sid

\* C28: the reaper thread survives handlers that create and terminate
\* sessions while it scans and removes: neither its iteration over the
\* session store nor its removals raise, so the thread never ends.
ReaperKeepsTicking == reaper.pc # "dead"

\* C29: a session's queue has one reader: while a stream of the session
\* is open, no stream connected to the same session after it has been
\* yielded any of the session's events.
SingleReader ==
    \A k1, k2 \in DOMAIN streams :
        ( /\ k1 < k2
          /\ streams[k1].sid = streams[k2].sid
          /\ streams[k1].pc = "open" )
        => Yielded(k2) = <<>>

\* the heartbeat requests put for session s so far, queued or yielded
PingsOf(s) ==
    {sess[s].event_queue[i] : i \in DOMAIN sess[s].event_queue}
    \cup UNION {{wire[k][i] : i \in DOMAIN wire[k]} : k \in StreamsOf(s)}
PingItems(s) == {x \in PingsOf(s) : x.kind = "ping"}

\* C30: the heartbeat requests of a session carry the ids 0, 1, 2, ... in
\* the order they are put, each id once: the id of a ping is the number of
\* pings put for the session before it.
PingIdsSequential ==
    \A s \in DOMAIN sess :
        \A x \in PingItems(s) :
            x.arg = Cardinality({y \in PingItems(s) : y.seq < x.seq})

\* the timer pairs started for session s whose send_ping thread, or whose
\* send_notifications thread, has not returned
PingThreadsOf(s) == {i \in DOMAIN timers : timers[i].sid = s /\ timers[i].ping # "exit"}
NotifThreadsOf(s) == {i \in DOMAIN timers : timers[i].sid = s /\ timers[i].notif # "exit"}

\* C31: a session has at most one running send_ping thread and at most one
\* running send_notifications thread, however many times the client sends
\* notifications/initialized for it.
OneTimerPairPerSession ==
    \A s \in DOMAIN sess :
        /\ Cardinality(PingThreadsOf(s)) <= 1
        /\ Cardinality(NotifThreadsOf(s)) <= 1

\* C32: the response to a tools/call is produced only after the tool's
\* thread has finished: a call whose handler has responded has a finished
\* tool thread, so the response carries the tool's outcome and the tool
\* puts no elicitation request after it, also when two 120-second waits
\* outlast the 180-second join.
ResponseAfterToolFinished ==
    \A c \in DOMAIN calls :
        calls[c].handler = "responded" => calls[c].pc = "finished"

\* answers whose action is neither accept, decline nor cancel: the key is
\* missing ("" stands for params.get('action') returning None) or holds
\* another string; the content confirms
OtherAnswers == {Answer("", TRUE), Answer("maybe", TRUE)}
AnyAnswers == ClientAnswers \cup OtherAnswers

\* a client that calls any of the tools and answers what it is asked with
\* any action, on either submit endpoint
AnswerEnvelopes ==
    {EnvRequest("initialize")}
    \cup {EnvToolsCall(n) : n \in ToolNames}
    \cup {EnvElicitationResponse(e, a) : e \in ElicitIds, a \in AnyAnswers}
    \cup {EnvReply(e, a) : e \in ElicitIds, a \in AnyAnswers}
\* the client answers each elicitation request it has received once
AnswersOnce(env) ==
    IsAnswer(env) => env.eid \in eseen /\ elicits[env.eid].sent = {}
AnswersMcp(sid, env) ==
    /\ AnswersOnce(env)
    /\ CallRoom(env, MaxCalls)
    /\ McpPost(sid, env)
AnswersSse(sid, env) ==
    /\ AnswersOnce(env)
    /\ CallRoom(env, MaxCalls)
    /\ SsePost(sid, env)

\* a tool thread and the answers of such a client
NextElicitAnswers ==
    \/ \E sid \in ElicitSessionIds, env \in AnswerEnvelopes : AnswersMcp(sid, env)
    \/ \E sid \in ElicitSessionIds, env \in AnswerEnvelopes : AnswersSse(sid, env)
    \/ \E c \in 1..MaxCalls : ElicitStart(c)
    \/ \E c \in 1..MaxCalls : ElicitReturn(c)
    \/ \E c \in 1..MaxCalls : ElicitTimeout(c)
    \/ \E c \in 1..MaxCalls : ToolRespond(c)
    \/ \E sid \in ElicitSessionIds : McpConnect(sid)
    \/ \E k \in 1..MaxElicitStreams : EStreamNext(k)

SpecElicitAnswers == Init /\ [][NextElicitAnswers]_vars

\* the results with which a tool reports that it carried out its operation
ToolSuccess == {"created", "deleted", "deployed"}
\* the answers request_elicitation has returned to tool invocation c
AnswersTo(c) ==
    {Val(elicits[e].returned) :
        e \in {x \in DOMAIN elicits : elicits[x].call = c /\ elicits[x].returned # None}}

\* C33: a tool carries out its operation only on explicit acceptance:
\* create_document, delete_files and deploy_application report success only
\* if every elicitation answer they received has action accept; decline,
\* cancel, a missing action or any other value aborts the operation.
SuccessOnlyOnAccept ==
    \A c \in DOMAIN calls :
        calls[c].result \in ToolSuccess
        => \A a \in AnswersTo(c) : a.action = "accept"

\* the notifications/progress of steps 1..n carrying token tok
ProgressSeq(tok, n) ==
    [i \in 1..n |-> [progressToken |-> tok, progress |-> i, total |-> TaskTotal]]

\* C34: a task created with a progressToken, whatever its value, gets one
\* notifications/progress per increment, carrying the token, progress 1..5
\* in increasing order and total 5, all of them before the task is
\* completed; a task created without a progressToken gets none.
ProgressNotified ==
    \A t \in DOMAIN tasks :
        LET tok == tasks[t].progressToken IN
        IF tok = None
        THEN progressOut[t] = <<>>
        ELSE /\ \E n \in 0..TaskTotal : progressOut[t] = ProgressSeq(Val(tok), n)
             /\ tasks[t].state = "completed"
                => progressOut[t] = ProgressSeq(Val(tok), TaskTotal)

\* a client of the /sse transport: requests and notifications of known and
\* unknown methods, tool calls, and answers in both forms
SseEnvelopes ==
    DispatchEnvelopes
    \cup {EnvToolsCall(n) : n \in ToolNames}
    \cup {EnvToolsCallNullArgs("delete_files")}
    \cup {EnvElicitationResponse(e, a) : e \in ElicitIds, a \in ClientAnswers}
    \cup {EnvReply(e, a) : e \in ElicitIds, a \in ClientAnswers}
SubmitSse(sid, env) ==
    /\ AnswersOnce(env)
    /\ CallRoom(env, MaxCalls)
    /\ SsePost(sid, env)

\* POST /sse with the stream of GET /sse and the tool threads
NextElicitSse ==
    \/ \E sid \in ElicitSidInputs, env \in SseEnvelopes : SubmitSse(sid, env)
    \/ SseConnect
    \/ \E c \in 1..MaxCalls : ToolRaise(c)
    \/ \E c \in 1..MaxCalls : ElicitStart(c)
    \/ \E c \in 1..MaxCalls : ElicitReturn(c)
    \/ \E c \in 1..MaxCalls : ElicitTimeout(c)
    \/ \E c \in 1..MaxCalls : ToolRespond(c)
    \/ \E k \in 1..MaxElicitStreams : EStreamNext(k)

SpecElicitSse == Init /\ [][NextElicitSse]_vars

\* the session handle_sse_rpc handles a request on, and that session's
\* queue before the request (empty if the request creates the session)
SseHandledOn(sid) == IF SseSession(sid) = 0 THEN Len(esess) + 1 ELSE SseSession(sid)
QueueBefore(s) == IF s \in DOMAIN esess THEN esess[s].event_queue ELSE <<>>
ResponseEvent(id, code) == [kind |-> "response", id |-> id, code |-> code]

NotificationsUnanswered ==
    lastRequest.rid = None => lastResponse = NoResponse

\* C37: tasks/get and tasks/cancel of an id that is not in the registry are
\* answered with error -32602 and leave the registry as it is; no step of
\* tasks/get changes a task record; and a task once created stays in the
\* registry, so that tasks/get of its id is never answered with an error.
UnknownIdRejectedRegistryKept ==
    /\ [][\A id \in TaskIds \cup {UnknownTaskId} :
            ((handle_tasks_get(id) \/ handle_tasks_cancel(id)) /\ id \notin DOMAIN tasks)
            => /\ tasks' = tasks
               /\ lastResponse' = [kind |-> "error", code |-> InvalidParams, snap |-> None]
               /\ mainPc' = "idle"]_vars
    /\ [][\A id \in TaskIds \cup {UnknownTaskId} :
            (handle_tasks_get(id) \/ (lastRequest.method = "tasks/get" /\ mainPc # "idle"
                                      /\ (ReadTaskState \/ SendTaskResponse)))
            => tasks' = tasks]_vars
    /\ [][DOMAIN tasks \subseteq DOMAIN tasks']_vars
    /\ []((lastRequest.method = "tasks/get" /\ lastRequest.rid # None
           /\ lastRequest.id \in DOMAIN tasks /\ lastRequest.saw # "")
          => lastResponse.kind # "error")

\* C37 witness: with a completed task in the registry, a tasks/get of an
\* unknown id has just been answered with -32602
UnknownIdRejectedSeen ==
    /\ lastRequest = Request("tasks/get", UnknownTaskId, "")
    /\ lastResponse.kind = "error" /\ lastResponse.code = InvalidParams
    /\ \E t \in DOMAIN tasks : tasks[t].state = "completed" /\ tasks[t].result # None

\* C38: the response to a successful tasks/cancel reports the state
\* cancelled for the task, under any interleaving with the task's worker.
CancelResponseCancelled ==
    (lastRequest.method = "tasks/cancel" /\ lastResponse.kind = "result")
    => Val(lastResponse.snap).state = "cancelled"

\* handle_rpc, method == 'elicitation/response', up to line 553: the answer
\* of a client to a request it has received is stored
ResolveStore(sid, eid, answer) ==
    /\ sid \in esessions
    /\ eid \in eseen
    /\ esess' = [esess EXCEPT ![sid] = ResolverStore(@, eid, answer)]
    /\ elicits' = NoteAnswer(elicits, sid, eid, answer)
    /\ UNCHANGED <<esessions, calls, estreams, eseen, eResp>>
    /\ ElicitFrame

\* the same handler from line 555: an answer is stored and its Event, if
\* still registered, is not set: set it, and answer 202
ResolveSignal(sid, eid) ==
    /\ sid \in DOMAIN esess
    /\ eid \in DOMAIN esess[sid].elicitation_responses
    /\ eid \in DOMAIN esess[sid].elicitation_events
          => ~esess[sid].elicitation_events[eid]
    /\ esess' = [esess EXCEPT ![sid] = ResolverSignal(@, eid)]
    /\ eResp' = EHttp(202, 0)
    /\ UNCHANGED <<esessions, calls, elicits, estreams, eseen>>
    /\ ElicitFrame

\* a client of POST /mcp that initializes and calls a tool
ResolveEnvelopes ==
    {EnvRequest("initialize")} \cup {EnvToolsCall(n) : n \in ToolNames}
ResolvePost(sid, env) == CallRoom(env, MaxCalls) /\ McpPost(sid, env)

\* tool threads in their waits against a resolver taken statement by statement
NextElicitResolve ==
    \/ \E sid \in ElicitSessionIds, env \in ResolveEnvelopes : ResolvePost(sid, env)
    \/ \E sid \in ElicitSessionIds, e \in ElicitIds, a \in ClientAnswers :
          ResolveStore(sid, e, a)
    \/ \E sid \in ElicitSessionIds, e \in ElicitIds : ResolveSignal(sid, e)
    \/ \E c \in 1..MaxCalls : ElicitStart(c)
    \/ \E c \in 1..MaxCalls : ElicitReturn(c)
    \/ \E c \in 1..MaxCalls : ElicitTimeout(c)
    \/ \E c \in 1..MaxCalls : ToolRespond(c)
    \/ \E sid \in ElicitSessionIds : McpConnect(sid)
    \/ \E k \in 1..MaxElicitStreams : EStreamNext(k)

SpecElicitResolve == Init /\ [][NextElicitResolve]_vars

====
